---- MODULE Spec2Model ----
(***************************************************************************)
(* The analysis pipeline of RMT-Revenue-Performance-Analysis.              *)
(*                                                                         *)
(* The repository holds two implementations of class HealthcareAnalyzer:   *)
(*   "part_010"    src/unnamed/part_010, lines 793-1584 (version 1.0.0)    *)
(*   "analyzer.js" src/src/js/analyzer.js                                  *)
(* The variable impl says which one a behaviour runs.                      *)
(*                                                                         *)
(* JavaScript numbers are modelled as exact rationals <<n, d>> in lowest   *)
(* terms with d > 0; <<0, 0>> is NaN, <<1, 0>> is Infinity and <<-1, 0>>   *)
(* is -Infinity.  Strings that the code compares or splits are sequences   *)
(* of one-character strings.                                               *)
(***************************************************************************)
EXTENDS Integers, Sequences, FiniteSets, TLC

VARIABLES impl, pc, rawData, rowIndex, currentValues, cleanedData, weeklyData,
          features, split, models, results, bestModel, trainStats,
          performanceResults,
          columnMap,
          finalResults,
          analysisResults,
          previousRuns,
          runCount,
          retry,
          app

vars == <<impl, pc, rawData, rowIndex, currentValues, cleanedData, weeklyData,
          features, split, models, results, bestModel, trainStats,
          performanceResults,
          columnMap,
          finalResults,
          analysisResults,
          previousRuns,
          runCount,
          retry,
          app>>

Impls == {"part_010", "analyzer.js"}

-----------------------------------------------------------------------------
(* Numbers *)

Abs(i) == IF i < 0 THEN -i ELSE i

Sign(i) == IF i < 0 THEN -1 ELSE IF i > 0 THEN 1 ELSE 0

RECURSIVE GCD(_, _)
GCD(a, b) == IF b = 0 THEN a ELSE GCD(b, a % b)

Norm(n, d) ==
    IF d = 0 THEN <<Sign(n), 0>>
    ELSE LET g == GCD(Abs(n), Abs(d))
             s == Sign(d)
         IN <<(s * n) \div g, (s * d) \div g>>

R(i) == <<i, 1>>
Zero == <<0, 1>>
One == <<1, 1>>
NaN == <<0, 0>>
Infinity == <<1, 0>>
NegInfinity == <<-1, 0>>

IsNaN(a) == a = NaN
IsFinite(a) == a[2] # 0

RNeg(a) == <<-a[1], a[2]>>

RAdd(a, b) ==
    IF IsFinite(a) /\ IsFinite(b)
    THEN Norm(a[1] * b[2] + b[1] * a[2], a[2] * b[2])
    ELSE IF IsNaN(a) \/ IsNaN(b) THEN NaN
    ELSE IF ~IsFinite(a) /\ ~IsFinite(b)
    THEN (IF a = b THEN a ELSE NaN)
    ELSE IF IsFinite(a) THEN b ELSE a

RSub(a, b) == RAdd(a, RNeg(b))

RMul(a, b) ==
    IF IsFinite(a) /\ IsFinite(b)
    THEN Norm(a[1] * b[1], a[2] * b[2])
    ELSE <<Sign(a[1]) * Sign(b[1]), 0>>

\* JavaScript division: x / 0 is +-Infinity, 0 / 0 is NaN
RDiv(a, b) ==
    IF IsFinite(a) /\ IsFinite(b)
    THEN (IF b[1] = 0 THEN <<Sign(a[1]), 0>>
          ELSE Norm(a[1] * b[2], a[2] * b[1]))
    ELSE IF IsNaN(a) \/ IsNaN(b) THEN NaN
    ELSE IF ~IsFinite(a) /\ ~IsFinite(b) THEN NaN
    ELSE IF IsFinite(a) THEN Zero
    ELSE <<a[1] * (IF b[1] < 0 THEN -1 ELSE 1), 0>>

\* a < b; every comparison with NaN is false
RLt(a, b) ==
    IF IsNaN(a) \/ IsNaN(b) THEN FALSE
    ELSE IF IsFinite(a) /\ IsFinite(b) THEN a[1] * b[2] < b[1] * a[2]
    ELSE IF ~IsFinite(a) /\ ~IsFinite(b) THEN a[1] < b[1]
    ELSE IF IsFinite(a) THEN b[1] > 0
    ELSE a[1] < 0

RGt(a, b) == RLt(b, a)
RLe(a, b) == ~IsNaN(a) /\ ~IsNaN(b) /\ ~RLt(b, a)
RGe(a, b) == RLe(b, a)

RAbs(a) == <<Abs(a[1]), a[2]>>

RMax(a, b) == IF IsNaN(a) \/ IsNaN(b) THEN NaN ELSE IF RLt(a, b) THEN b ELSE a

\* the JavaScript idiom  x || 0  on a number: 0 and NaN are falsy
OrZero(a) == IF a = Zero \/ IsNaN(a) THEN Zero ELSE a

\* x || y on numbers
OrElse(a, b) == IF a = Zero \/ IsNaN(a) THEN b ELSE a

RECURSIVE SumSeq(_)
SumSeq(s) == IF s = <<>> THEN Zero ELSE RAdd(SumSeq(SubSeq(s, 1, Len(s) - 1)), s[Len(s)])

Map(s, Op(_)) == [i \in 1..Len(s) |-> Op(s[i])]

Filter(s, Test(_)) == SelectSeq(s, Test)

\* the concatenation of a sequence of sequences
RECURSIVE Flatten(_)
Flatten(ss) == IF Len(ss) = 0 THEN <<>> ELSE Flatten(SubSeq(ss, 1, Len(ss) - 1)) \o ss[Len(ss)]

-----------------------------------------------------------------------------
(* Strings: sequences of one-character strings *)

Digits == <<"0", "1", "2", "3", "4", "5", "6", "7", "8", "9">>

IsDigit(c) == \E i \in 1..10 : Digits[i] = c

DigitVal(c) == (CHOOSE i \in 1..10 : Digits[i] = c) - 1

\* UTF-16 code unit of the characters the model uses
CharCode(c) ==
    IF c = "-" THEN 45
    ELSE IF IsDigit(c) THEN 48 + DigitVal(c)
    ELSE IF c = "W" THEN 87
    ELSE 65

\* String.prototype.localeCompare and the < of lodash's compareAscending:
\* on the characters above both order strings by code unit, a proper prefix first.
\* The result is -1, 0 or 1.
RECURSIVE localeCompare(_, _)
localeCompare(a, b) ==
    IF a = <<>> /\ b = <<>> THEN 0
    ELSE IF a = <<>> THEN -1
    ELSE IF b = <<>> THEN 1
    ELSE IF CharCode(Head(a)) < CharCode(Head(b)) THEN -1
    ELSE IF CharCode(Head(a)) > CharCode(Head(b)) THEN 1
    ELSE localeCompare(Tail(a), Tail(b))

\* the decimal digits of a positive integer, as a template literal prints it
RECURSIVE DigitChars(_)
DigitChars(n) ==
    IF n < 10 THEN <<Digits[n + 1]>>
    ELSE DigitChars(n \div 10) \o <<Digits[(n % 10) + 1]>>

\* String.prototype.split('-')
RECURSIVE SplitDash(_)
SplitDash(s) ==
    IF \A i \in 1..Len(s) : s[i] # "-" THEN <<s>>
    ELSE LET k == CHOOSE i \in 1..Len(s) :
                     s[i] = "-" /\ \A j \in 1..(i - 1) : s[j] # "-"
         IN <<SubSeq(s, 1, k - 1)>> \o SplitDash(SubSeq(s, k + 1, Len(s)))

\* parseInt on a string: the value of its leading digits, NaN when there are none
RECURSIVE LeadingDigitsValue(_, _)
LeadingDigitsValue(s, acc) ==
    IF s = <<>> \/ ~IsDigit(Head(s)) THEN acc
    ELSE LeadingDigitsValue(Tail(s), 10 * acc + DigitVal(Head(s)))

parseInt(s) ==
    IF s = <<>> \/ ~IsDigit(Head(s)) THEN NaN ELSE R(LeadingDigitsValue(s, 0))

-----------------------------------------------------------------------------
(* Utility functions: lodash in part_010, the class's own in analyzer.js *)

\* _.sum / _.sumBy (part_010)
lodashSum(s) == SumSeq(s)

\* _.mean / _.meanBy (part_010): NaN on an empty array
lodashMean(s) == IF Len(s) = 0 THEN NaN ELSE RDiv(SumSeq(s), R(Len(s)))

\* sum(array) of analyzer.js: reduce((sum, val) => sum + (val || 0), 0)
sum(s) == SumSeq(Map(s, OrZero))

\* mean(array) of analyzer.js: 0 on an empty array
mean(s) == IF Len(s) > 0 THEN RDiv(sum(s), R(Len(s))) ELSE Zero

\* The comparator of the chronological sorts: years as numbers, then the week
\* labels as strings.  aggregateByWeek and analyzer.js's createTrainTestSplit use
\* a.year - b.year || a.week.localeCompare(b.week); _.sortBy(features, ['year',
\* 'week']) of part_010 orders the same way.
compareWeeks(a, b) ==
    IF a.year # b.year
    THEN (IF RLt(a.year, b.year) THEN -1 ELSE IF RLt(b.year, a.year) THEN 1 ELSE 0)
    ELSE localeCompare(a.week, b.week)

\* Array.prototype.sort and _.sortBy are stable: each element is inserted after
\* the last element that does not compare greater
RECURSIVE sortWeeks(_)
sortWeeks(s) ==
    IF Len(s) <= 1 THEN s
    ELSE LET init == sortWeeks(SubSeq(s, 1, Len(s) - 1))
             x == s[Len(s)]
             pos == Cardinality({i \in 1..Len(init) :
                        \A j \in 1..i : compareWeeks(init[j], x) <= 0})
         IN SubSeq(init, 1, pos) \o <<x>> \o SubSeq(init, pos + 1, Len(init))

-----------------------------------------------------------------------------
(* Phase 1: data extraction and cleaning *)

\* A cell of columns A-D of the sheet (row[0] .. row[3]): null, undefined (a hole
\* or a short row), the empty string, or a value.  val is an integer in column A,
\* a sequence of characters in column B and a string in columns C and D; a cell
\* that is not a value holds the empty val of its column.
Cell(kind, val) == [kind |-> kind, val |-> val]

\* let currentYear = null, currentWeek = null, currentPayer = null
noCarriedValues == [year |-> Cell("null", 0), week |-> Cell("null", <<>>),
                    payer |-> Cell("null", "")]

\* row[k] !== null && row[k] !== undefined && row[k] !== ''
isNonEmpty(cell) == cell.kind \notin {"null", "undefined", "empty"}

\* the truth value of a number cell and of a string cell
truthyNumber(cell) == cell.kind = "value" /\ cell.val # 0
truthyString(cell) == cell.kind = "value"

\* if (row[k] is non-empty) current = row[k]
carryForward(currentValue, cell) == IF isNonEmpty(cell) THEN cell ELSE currentValue

\* !currentYear || !currentWeek || !currentPayer || !row[3]
missingEssential(carried, row) ==
    \/ ~truthyNumber(carried.year)
    \/ ~truthyString(carried.week)
    \/ ~truthyString(carried.payer)
    \/ ~truthyString(row.D)

\* the carried values are taken over only from a row that is not skipped
carriedValuesOfKeptRows(carried, row) ==
    LET updated == [year |-> carryForward(carried.year, row.A),
                    week |-> carryForward(carried.week, row.B),
                    payer |-> carryForward(carried.payer, row.C)]
    IN IF missingEssential(updated, row) THEN carried ELSE updated

\* currentYear, currentWeek and currentPayer after the three tests on a row
carriedValues(carried, row) ==
    [year |-> carryForward(carried.year, row.A),
     week |-> carryForward(carried.week, row.B),
     payer |-> carryForward(carried.payer, row.C)]

\* A cell of a numeric column: undefined, a number, or a string that is an
\* optional "$", the decimal text of num (NaN when the text is not numeric) and
\* an optional "%".
NumberCell(num) == [kind |-> "number", num |-> num, currency |-> FALSE, percent |-> FALSE]
StringCell(currency, num, percent) ==
    [kind |-> "string", num |-> num, currency |-> currency, percent |-> percent]
UndefinedCell == [kind |-> "undefined", num |-> NaN, currency |-> FALSE, percent |-> FALSE]

\* parseFloat: the longest numeric prefix, NaN when the text starts with "$"
parseFloat(cell) ==
    IF cell.kind = "undefined" \/ cell.currency THEN NaN ELSE cell.num

\* the integer part of a finite number, towards zero
Truncate(a) == IF IsFinite(a) THEN R(Sign(a[1]) * (Abs(a[1]) \div a[2])) ELSE a

\* parseInt of a cell: the integer prefix of its text
parseIntCell(cell) == Truncate(parseFloat(cell))

\* parseNumeric of part_010
parseNumeric(value) ==
    IF value.kind = "undefined" THEN Zero
    ELSE IF value.kind = "string" /\ value.percent
    THEN LET num == parseFloat(value)
         IN IF IsNaN(num) THEN Zero ELSE RDiv(num, R(100))
    ELSE LET num == value.num
         IN IF IsNaN(num) THEN Zero ELSE num

\* parseInteger of part_010
parseInteger(value) ==
    IF value.kind = "undefined" THEN Zero
    ELSE LET num == parseIntCell(value)
         IN IF IsNaN(num) THEN Zero ELSE num

\* parseNumber of analyzer.js
parseNumber(value) ==
    IF value.kind = "undefined" THEN Zero
    ELSE LET num == parseFloat(value)
         IN IF IsNaN(num) THEN Zero ELSE num

\* the record built from a row that is not skipped; the numeric cells are those
\* of the columns that columnMap (part_010) or the fixed indices 4..11
\* (analyzer.js) select
buildRecord(im, carried, row) ==
    LET number(cell) == IF im = "part_010" THEN parseNumeric(cell) ELSE parseNumber(cell)
        integer(cell) == IF im = "part_010" THEN parseInteger(cell)
                         ELSE OrZero(parseIntCell(cell))
        totalPayments == number(row.totalPayments)
        visitCount == integer(row.visitCount)
        visitsWithLabCount == integer(row.visitsWithLabCount)
    IN [year |-> carried.year.val, week |-> carried.week.val,
        payer |-> carried.payer.val, emGroup |-> row.D.val,
        paymentsPctOfTotal |-> number(row.paymentsPct),
        avgPayment |-> number(row.avgPayment),
        avgEMWeight |-> number(row.avgEMWeight),
        chargeAmount |-> number(row.chargeAmount),
        collectionPct |-> number(row.collectionPct),
        totalPayments |-> totalPayments,
        visitCount |-> visitCount,
        visitsWithLabCount |-> visitsWithLabCount,
        pctVisitsWithLabs |-> IF RGt(visitCount, Zero)
                              THEN RDiv(visitsWithLabCount, visitCount) ELSE Zero,
        paymentPerVisit |-> IF RGt(visitCount, Zero)
                            THEN RDiv(totalPayments, visitCount) ELSE Zero]

\* validateRecord of part_010; year, week, payer and emGroup are truthy in every
\* record that reaches it
validateRecord(record) ==
    /\ RGe(record.totalPayments, Zero)
    /\ RGe(record.chargeAmount, Zero)
    /\ RGe(record.visitCount, Zero)
    /\ RGe(record.collectionPct, Zero)
    /\ RLe(record.collectionPct, R(5))

\* what one pass of the loop body pushes on cleanedData, given the carried
\* values after the row's cells were taken over
pushedRecords(im, carried, row) ==
    IF missingEssential(carried, row) THEN <<>>
    ELSE LET record == buildRecord(im, carried, row)
         IN IF im = "part_010" /\ ~validateRecord(record) THEN <<>> ELSE <<record>>

\* rawData.slice(1)
dataRowsOf(raw) == IF Len(raw) = 0 THEN <<>> ELSE Tail(raw)

\* analyzer.js throws on rawData.length < 2; in part_010 createColumnMap throws
\* on the undefined header row of an empty sheet
loadThrows(im, raw) == IF im = "analyzer.js" THEN Len(raw) < 2 ELSE Len(raw) = 0

-----------------------------------------------------------------------------
(* Phase 2: weekly aggregation *)

\* the group key `${record.year}-${record.week}`
weekKeyOf(record) == DigitChars(record.year) \o <<"-">> \o record.week

\* one group per record: the key is not looked up before a group is started
groupKeysPerRecord(data) == Map(data, weekKeyOf)

\* the keys of weeklyGroups in Object.entries order: first occurrence
RECURSIVE groupKeys(_)
groupKeys(data) ==
    IF data = <<>> THEN <<>>
    ELSE LET init == groupKeys(SubSeq(data, 1, Len(data) - 1))
             k == weekKeyOf(data[Len(data)])
         IN IF \E i \in 1..Len(init) : init[i] = k THEN init ELSE Append(init, k)

chargeAmountOf(r) == r.chargeAmount
totalPaymentsOf(r) == r.totalPayments
visitCountOf(r) == r.visitCount
visitsWithLabCountOf(r) == r.visitsWithLabCount
collectionPctOf(r) == r.collectionPct
isBcbs(r) == r.payer = "2-BCBS"
isAetna(r) == r.payer = "17-AETNA"
isSelfPay(r) == r.payer = "1-SELF PAY"
\* a commercial filter that also takes the BCBS records
isCommercialOrBcbs(r) == r.payer = "5-COMMERCIAL" \/ r.payer = "2-BCBS"
isCommercial(r) == r.payer = "5-COMMERCIAL"

\* a ratio with the zero guard dropped
unguardedRatio(num, den) == RDiv(num, den)

\* the guarded ratios of both implementations:  den > 0 ? num / den : 0
guardedRatio(num, den) == IF RGt(den, Zero) THEN RDiv(num, den) ELSE Zero

\* one WeeklyAggregate of part_010 (lodash sums)
aggregateWeek010(weekKey, weekRecords) ==
    LET parts == SplitDash(weekKey)
        totalPayments == lodashSum(Map(weekRecords, totalPaymentsOf))
        totalChargeAmount == lodashSum(Map(weekRecords, chargeAmountOf))
        totalVisitCount == lodashSum(Map(weekRecords, visitCountOf))
        totalVisitsWithLabs == lodashSum(Map(weekRecords, visitsWithLabCountOf))
        weighted(r) == RMul(OrZero(r.collectionPct), r.chargeAmount)
        bcbsRecords == Filter(weekRecords, isBcbs)
        aetnaRecords == Filter(weekRecords, isAetna)
        selfPayRecords == Filter(weekRecords, isSelfPay)
        commercialRecords == Filter(weekRecords, isCommercial)
    IN [year |-> parseInt(parts[1]),
        week |-> parts[2],
        weekKey |-> weekKey,
        totalPayments |-> totalPayments,
        totalChargeAmount |-> totalChargeAmount,
        totalVisitCount |-> totalVisitCount,
        weightedAvgCollectionPct |->
            guardedRatio(lodashSum(Map(weekRecords, weighted)), totalChargeAmount),
        avgPaymentPerVisit |-> guardedRatio(totalPayments, totalVisitCount),
        pctVisitsWithLabs |-> guardedRatio(totalVisitsWithLabs, totalVisitCount),
        bcbsCharges |-> lodashSum(Map(bcbsRecords, chargeAmountOf)),
        bcbsVisits |-> lodashSum(Map(bcbsRecords, visitCountOf)),
        bcbsCollectionPct |->
            IF Len(bcbsRecords) > 0 THEN lodashMean(Map(bcbsRecords, collectionPctOf)) ELSE Zero,
        aetnaCharges |-> lodashSum(Map(aetnaRecords, chargeAmountOf)),
        aetnaVisits |-> lodashSum(Map(aetnaRecords, visitCountOf)),
        aetnaCollectionPct |->
            IF Len(aetnaRecords) > 0 THEN lodashMean(Map(aetnaRecords, collectionPctOf)) ELSE Zero,
        selfPayCharges |-> lodashSum(Map(selfPayRecords, chargeAmountOf)),
        selfPayVisits |-> lodashSum(Map(selfPayRecords, visitCountOf)),
        selfPayCollectionPct |->
            IF Len(selfPayRecords) > 0 THEN lodashMean(Map(selfPayRecords, collectionPctOf)) ELSE Zero,
        commercialCharges |-> lodashSum(Map(commercialRecords, chargeAmountOf)),
        commercialVisits |-> lodashSum(Map(commercialRecords, visitCountOf)),
        detailRecords |-> weekRecords]

\* one WeeklyAggregate of analyzer.js (its own sum and mean; no commercial payer)
aggregateWeekJs(weekKey, weekRecords) ==
    LET parts == SplitDash(weekKey)
        totalPayments == sum(Map(weekRecords, totalPaymentsOf))
        totalChargeAmount == sum(Map(weekRecords, chargeAmountOf))
        totalVisitCount == sum(Map(weekRecords, visitCountOf))
        totalVisitsWithLabs == sum(Map(weekRecords, visitsWithLabCountOf))
        weighted(r) == RMul(r.collectionPct, r.chargeAmount)
        bcbsRecords == Filter(weekRecords, isBcbs)
        aetnaRecords == Filter(weekRecords, isAetna)
        selfPayRecords == Filter(weekRecords, isSelfPay)
    IN [year |-> parseInt(parts[1]),
        week |-> parts[2],
        weekKey |-> weekKey,
        totalPayments |-> totalPayments,
        totalChargeAmount |-> totalChargeAmount,
        totalVisitCount |-> totalVisitCount,
        weightedAvgCollectionPct |->
            guardedRatio(sum(Map(weekRecords, weighted)), totalChargeAmount),
        avgPaymentPerVisit |-> guardedRatio(totalPayments, totalVisitCount),
        pctVisitsWithLabs |-> guardedRatio(totalVisitsWithLabs, totalVisitCount),
        bcbsCharges |-> sum(Map(bcbsRecords, chargeAmountOf)),
        bcbsVisits |-> sum(Map(bcbsRecords, visitCountOf)),
        bcbsCollectionPct |->
            IF Len(bcbsRecords) > 0 THEN mean(Map(bcbsRecords, collectionPctOf)) ELSE Zero,
        aetnaCharges |-> sum(Map(aetnaRecords, chargeAmountOf)),
        aetnaVisits |-> sum(Map(aetnaRecords, visitCountOf)),
        aetnaCollectionPct |->
            IF Len(aetnaRecords) > 0 THEN mean(Map(aetnaRecords, collectionPctOf)) ELSE Zero,
        selfPayCharges |-> sum(Map(selfPayRecords, chargeAmountOf)),
        selfPayVisits |-> sum(Map(selfPayRecords, visitCountOf)),
        selfPayCollectionPct |->
            IF Len(selfPayRecords) > 0 THEN mean(Map(selfPayRecords, collectionPctOf)) ELSE Zero,
        detailRecords |-> weekRecords]

\* an aggregation that returns the aggregates in the order of their first
\* records, without the chronological sort
aggregateByWeekUnsorted(im, data) ==
    LET keys == groupKeys(data)
        group(k) == LET has(r) == weekKeyOf(r) = k IN Filter(data, has)
        one(k) == IF im = "part_010" THEN aggregateWeek010(k, group(k))
                  ELSE aggregateWeekJs(k, group(k))
    IN Map(keys, one)

\* aggregateByWeek: group by key, aggregate each group, sort chronologically
aggregateByWeek(im, data) ==
    LET keys == groupKeys(data)
        group(k) == LET has(r) == weekKeyOf(r) = k IN Filter(data, has)
        one(k) == IF im = "part_010" THEN aggregateWeek010(k, group(k))
                  ELSE aggregateWeekJs(k, group(k))
    IN sortWeeks(Map(keys, one))

-----------------------------------------------------------------------------
(* Phase 3: feature engineering *)

engineerFeature010(week) ==
    LET chargesPerVisit == guardedRatio(week.totalChargeAmount, week.totalVisitCount)
        pct(x) == guardedRatio(x, week.totalChargeAmount)
        bcbsChargesPct == pct(week.bcbsCharges)
        aetnaChargesPct == pct(week.aetnaCharges)
    IN [weekKey |-> week.weekKey,
        year |-> week.year,
        week |-> week.week,
        totalPayments |-> week.totalPayments,
        totalChargeAmount |-> week.totalChargeAmount,
        totalVisitCount |-> week.totalVisitCount,
        weightedAvgCollectionPct |-> week.weightedAvgCollectionPct,
        avgPaymentPerVisit |-> week.avgPaymentPerVisit,
        pctVisitsWithLabs |-> week.pctVisitsWithLabs,
        chargesPerVisit |-> chargesPerVisit,
        collectionEfficiency |-> week.weightedAvgCollectionPct,
        bcbsChargesPct |-> bcbsChargesPct,
        aetnaChargesPct |-> aetnaChargesPct,
        selfPayChargesPct |-> pct(week.selfPayCharges),
        commercialChargesPct |-> pct(week.commercialCharges),
        highValuePayerPct |-> RAdd(bcbsChargesPct, aetnaChargesPct),
        originalData |-> week]

engineerFeatureJs(week) ==
    LET pct(x) == guardedRatio(x, week.totalChargeAmount)
    IN [weekKey |-> week.weekKey,
        year |-> week.year,
        week |-> week.week,
        totalPayments |-> week.totalPayments,
        totalChargeAmount |-> week.totalChargeAmount,
        totalVisitCount |-> week.totalVisitCount,
        weightedAvgCollectionPct |-> week.weightedAvgCollectionPct,
        avgPaymentPerVisit |-> week.avgPaymentPerVisit,
        pctVisitsWithLabs |-> week.pctVisitsWithLabs,
        bcbsChargesPct |-> pct(week.bcbsCharges),
        aetnaChargesPct |-> pct(week.aetnaCharges),
        selfPayChargesPct |-> pct(week.selfPayCharges),
        chargesPerVisit |-> guardedRatio(week.totalChargeAmount, week.totalVisitCount),
        originalData |-> week]

engineerFeatures(im, weekly) ==
    IF im = "part_010" THEN Map(weekly, engineerFeature010)
    ELSE Map(weekly, engineerFeatureJs)

-----------------------------------------------------------------------------
(* Phase 4: chronological train/test split and training correlations *)

\* the default value of the parameter testSize, 0.2
testSize == <<1, 5>>

\* Math.floor of a non-negative finite number
Floor(a) == a[1] \div a[2]

\* Math.floor(sortedFeatures.length * (1 - testSize))
trainSizeOf(n) == Floor(RMul(R(n), RSub(One, testSize)))

\* The Pearson coefficient numerator / Math.sqrt(varX * varY) is not rational.
\* It is represented exactly by its sign and its square; the code's value 0 for
\* a zero denominator is [sign |-> 0, square |-> Zero].
pearson(n, x, y) ==
    LET sumX == SumSeq(x)
        sumY == SumSeq(y)
        sumXY == SumSeq([i \in 1..Len(x) |-> RMul(x[i], y[i])])
        sumX2 == SumSeq([i \in 1..Len(x) |-> RMul(x[i], x[i])])
        sumY2 == SumSeq([i \in 1..Len(y) |-> RMul(y[i], y[i])])
        numerator == RSub(RMul(R(n), sumXY), RMul(sumX, sumY))
        radicand == RMul(RSub(RMul(R(n), sumX2), RMul(sumX, sumX)),
                         RSub(RMul(R(n), sumY2), RMul(sumY, sumY)))
    IN IF radicand = Zero THEN [sign |-> 0, square |-> Zero]
       ELSE [sign |-> Sign(numerator[1]),
             square |-> RDiv(RMul(numerator, numerator), radicand)]

\* calculateCorrelation of part_010: 0 on arrays of unequal length or no element,
\* y[i] || 0
calculateCorrelation010(x, y) ==
    IF Len(x) # Len(y) \/ Len(x) = 0 THEN [sign |-> 0, square |-> Zero]
    ELSE pearson(Len(x), x, Map(y, OrZero))

\* calculateCorrelation of analyzer.js (sums through sum(), which reads val || 0)
calculateCorrelationJs(x, y) == pearson(Len(x), Map(x, OrZero), Map(y, OrZero))

correlationFeatures010 ==
    {"totalChargeAmount", "totalVisitCount", "weightedAvgCollectionPct",
     "avgPaymentPerVisit", "bcbsChargesPct", "aetnaChargesPct",
     "highValuePayerPct", "chargesPerVisit"}

correlationFeaturesJs ==
    {"totalChargeAmount", "totalVisitCount", "weightedAvgCollectionPct",
     "avgPaymentPerVisit", "bcbsChargesPct", "aetnaChargesPct"}

\* correlations computed over every week instead of the training weeks
correlationRowsAll(trainData, testData) == trainData \o testData

\* the rows the correlations are computed from: trainData, and nothing else
correlationRows(trainData, testData) == trainData

\* trainCorrelations of part_010 (lines 1178-1195): f[feature] || 0 against totalPayments
trainCorrelations010(rows) ==
    LET target == Map(rows, totalPaymentsOf)
    IN [f \in correlationFeatures010 |->
           calculateCorrelation010([i \in 1..Len(rows) |-> OrZero(rows[i][f])], target)]

\* calculateCorrelations of analyzer.js
calculateCorrelations(rows) ==
    LET target == Map(rows, totalPaymentsOf)
    IN [f \in correlationFeaturesJs |->
           calculateCorrelationJs([i \in 1..Len(rows) |-> rows[i][f]], target)]

\* createTrainTestSplit up to its return value; part_010 logs trainData[0].weekKey
\* and testData[0].weekKey first, which throws a TypeError on an empty partition
splitThrows(im, feats) ==
    im = "part_010" /\ (trainSizeOf(Len(feats)) = 0 \/ Len(feats) = 0)

createTrainTestSplit(im, feats) ==
    LET sortedFeatures == sortWeeks(feats)
        trainSize == trainSizeOf(Len(sortedFeatures))
        trainData == SubSeq(sortedFeatures, 1, trainSize)
        testData == SubSeq(sortedFeatures, trainSize + 1, Len(sortedFeatures))
        rows == correlationRows(trainData, testData)
    IN [trainData |-> trainData,
        testData |-> testData,
        trainCorrelations |->
            IF im = "part_010" THEN trainCorrelations010(rows)
            ELSE calculateCorrelations(rows)]

-----------------------------------------------------------------------------
(* Phase 5: the four models *)

ModelNames == <<"Business Logic", "Visit-Based", "Multi-Factor", "Payer-Weighted">>

weightedAvgCollectionPctOf(w) == w.weightedAvgCollectionPct
avgPaymentPerVisitOf(w) == w.avgPaymentPerVisit
chargesPerVisitOf(w) == w.chargesPerVisit
bcbsChargesPctOf(w) == w.bcbsChargesPct
aetnaChargesPctOf(w) == w.aetnaChargesPct

\* training statistics of part_010: _.mean over trainData of (field || 0)
trainStats010(trainData) ==
    [avgCollectionRate |-> lodashMean(Map(Map(trainData, weightedAvgCollectionPctOf), OrZero)),
     avgPaymentPerVisit |-> lodashMean(Map(Map(trainData, avgPaymentPerVisitOf), OrZero)),
     avgChargesPerVisit |-> lodashMean(Map(Map(trainData, chargesPerVisitOf), OrZero)),
     avgBcbsPct |-> lodashMean(Map(Map(trainData, bcbsChargesPctOf), OrZero)),
     avgAetnaPct |-> lodashMean(Map(Map(trainData, aetnaChargesPctOf), OrZero))]

\* training statistics of analyzer.js
trainStatsJs(trainData) ==
    [avgCollectionRate |-> mean(Map(trainData, weightedAvgCollectionPctOf)),
     avgPaymentPerVisit |-> mean(Map(trainData, avgPaymentPerVisitOf)),
     avgChargesPerVisit |-> mean(Map(trainData, chargesPerVisitOf))]

\* a payer adjustment without the share of the other payers
payerAdjustmentNamedPayers(week) ==
    RAdd(RMul(OrZero(week.bcbsChargesPct), <<5, 4>>),
         RMul(OrZero(week.aetnaChargesPct), <<6, 5>>))

\* the payer adjustment of part_010's Payer-Weighted model
payerAdjustment010(week) ==
    LET bcbsPct == OrZero(week.bcbsChargesPct)
        aetnaPct == OrZero(week.aetnaChargesPct)
        otherPct == RSub(RSub(One, bcbsPct), aetnaPct)
    IN RAdd(RAdd(RMul(bcbsPct, <<5, 4>>), RMul(aetnaPct, <<6, 5>>)),
            RMul(otherPct, <<19, 20>>))

\* the predictions developModels of part_010 makes for one test week
modelPrediction010(name, week, stats) ==
    IF name = "Business Logic"
    THEN RMul(OrZero(week.totalChargeAmount), stats.avgCollectionRate)
    ELSE IF name = "Visit-Based"
    THEN RMul(OrZero(week.totalVisitCount), stats.avgPaymentPerVisit)
    ELSE IF name = "Multi-Factor"
    THEN LET chargeComponent ==
                 RMul(RMul(OrZero(week.totalChargeAmount),
                           OrElse(week.weightedAvgCollectionPct, stats.avgCollectionRate)),
                      <<3, 5>>)
             visitComponent ==
                 RMul(RMul(OrZero(week.totalVisitCount), stats.avgPaymentPerVisit), <<2, 5>>)
         IN RAdd(chargeComponent, visitComponent)
    ELSE LET basePayment == RMul(OrZero(week.totalVisitCount), stats.avgPaymentPerVisit)
         IN RMul(basePayment, RMax(<<1, 2>>, payerAdjustment010(week)))

\* the predictions developModels of analyzer.js makes for one test week
modelPredictionJs(name, week, stats) ==
    IF name = "Business Logic"
    THEN RMul(week.totalChargeAmount, stats.avgCollectionRate)
    ELSE IF name = "Visit-Based"
    THEN RMul(week.totalVisitCount, stats.avgPaymentPerVisit)
    ELSE IF name = "Multi-Factor"
    THEN LET chargeComponent ==
                 RMul(RMul(week.totalChargeAmount, week.weightedAvgCollectionPct), <<3, 5>>)
             visitComponent ==
                 RMul(RMul(week.totalVisitCount, stats.avgPaymentPerVisit), <<2, 5>>)
         IN RAdd(chargeComponent, visitComponent)
    ELSE LET basePayment == RMul(week.totalVisitCount, stats.avgPaymentPerVisit)
             payerAdjustment ==
                 RAdd(RAdd(RMul(week.bcbsChargesPct, <<6, 5>>),
                           RMul(week.aetnaChargesPct, <<23, 20>>)),
                      RMul(RSub(RSub(One, week.bcbsChargesPct), week.aetnaChargesPct), One))
         IN RMul(basePayment, payerAdjustment)

\* developModels with the training statistics taken over the training and the
\* test weeks together
developModelsAllWeeks(im, trainData, testData) ==
    LET stats == IF im = "part_010" THEN trainStats010(trainData \o testData)
                 ELSE trainStatsJs(trainData \o testData)
        predict(name, week) ==
            IF im = "part_010" THEN modelPrediction010(name, week, stats)
            ELSE modelPredictionJs(name, week, stats)
    IN [list |-> [m \in 1..4 |->
                     [name |-> ModelNames[m],
                      predictions |-> [i \in 1..Len(testData) |->
                                          predict(ModelNames[m], testData[i])]]],
        trainStats |-> stats]

\* developModels: model1..model4 in this order, and trainStats
developModels(im, trainData, testData) ==
    LET stats == IF im = "part_010" THEN trainStats010(trainData) ELSE trainStatsJs(trainData)
        predict(name, week) ==
            IF im = "part_010" THEN modelPrediction010(name, week, stats)
            ELSE modelPredictionJs(name, week, stats)
    IN [list |-> [m \in 1..4 |->
                     [name |-> ModelNames[m],
                      predictions |-> [i \in 1..Len(testData) |->
                                          predict(ModelNames[m], testData[i])]]],
        trainStats |-> stats]

-----------------------------------------------------------------------------
(* Phase 6: evaluation and selection *)

Square(a) == RMul(a, a)

\* Math.sqrt is not rational: rmse is represented by its square
\* calculateMetrics of part_010 (the closure inside evaluateModels)
calculateMetrics010(predictions, actuals, modelName) ==
    LET errors == [i \in 1..Len(actuals) |-> RSub(actuals[i], OrZero(predictions[i]))]
        absoluteErrors == Map(errors, RAbs)
        mae == lodashMean(absoluteErrors)
        mape == lodashMean([i \in 1..Len(actuals) |->
                    IF RGt(actuals[i], Zero)
                    THEN RMul(RDiv(absoluteErrors[i], actuals[i]), R(100)) ELSE Zero])
        actualMean == lodashMean(actuals)
        totalSumSquares ==
            lodashSum([i \in 1..Len(actuals) |-> Square(RSub(actuals[i], actualMean))])
        residualSumSquares == lodashSum(Map(errors, Square))
    IN [mae |-> mae,
        rmseSquared |-> lodashMean(Map(errors, Square)),
        mape |-> mape,
        rSquared |-> IF RGt(totalSumSquares, Zero)
                     THEN RMax(Zero, RSub(One, RDiv(residualSumSquares, totalSumSquares)))
                     ELSE Zero,
        accuracy |-> RSub(R(100), mape),
        bias |-> lodashMean(errors),
        predictions |-> predictions,
        modelName |-> modelName]

\* calculateMetrics of analyzer.js
calculateMetrics(predictions, actuals, modelName) ==
    LET errors == [i \in 1..Len(actuals) |-> RSub(actuals[i], predictions[i])]
        absoluteErrors == Map(errors, RAbs)
        mae == mean(absoluteErrors)
        mape == mean([i \in 1..Len(actuals) |->
                    IF RGt(actuals[i], Zero)
                    THEN RMul(RDiv(absoluteErrors[i], actuals[i]), R(100)) ELSE Zero])
        actualMean == mean(actuals)
        totalSumSquares ==
            sum([i \in 1..Len(actuals) |-> Square(RSub(actuals[i], actualMean))])
        residualSumSquares == sum(Map(errors, Square))
    IN [mae |-> mae,
        rmseSquared |-> mean(Map(errors, Square)),
        mape |-> mape,
        rSquared |-> RSub(One, RDiv(residualSumSquares, totalSumSquares)),
        predictions |-> predictions,
        modelName |-> modelName]

\* a reduce step that keeps the result with the higher MAE
reduceStepHigherMae(best, current) ==
    IF RGt(current.mae, best.mae) THEN current ELSE best

\* one step of the reduce of part_010: lower MAE wins; otherwise a higher
\* rSquared wins when the two MAEs differ by less than 100
reduceStep010(best, current) ==
    IF RLt(current.mae, best.mae) THEN current
    ELSE IF RLt(RAbs(RSub(current.mae, best.mae)), R(100))
            /\ RGt(current.rSquared, best.rSquared) THEN current
    ELSE best

\* one step of the reduce of analyzer.js: strictly lower MAE wins
reduceStepJs(best, current) ==
    IF RLt(current.mae, best.mae) THEN current ELSE best

\* results.reduce(step) without an initial value: the first result starts as best
RECURSIVE reduceBest(_, _)
reduceBest(im, res) ==
    IF Len(res) = 1 THEN res[1]
    ELSE LET best == reduceBest(im, SubSeq(res, 1, Len(res) - 1))
         IN IF im = "part_010" THEN reduceStep010(best, res[Len(res)])
            ELSE reduceStepJs(best, res[Len(res)])

\* the results array of evaluateModels, one entry per model in model1..model4 order
evaluateResults(im, mods, testData) ==
    LET testActuals == IF im = "part_010" THEN Map(Map(testData, totalPaymentsOf), OrZero)
                       ELSE Map(testData, totalPaymentsOf)
    IN [m \in 1..4 |->
           IF im = "part_010"
           THEN calculateMetrics010(mods.list[m].predictions, testActuals, mods.list[m].name)
           ELSE calculateMetrics(mods.list[m].predictions, testActuals, mods.list[m].name)]

-----------------------------------------------------------------------------
(* Phase 7: performance classification *)

\* the formula classifyPerformance of part_010 re-applies, dispatched by name
classifierPrediction010(modelName, week, stats) ==
    IF modelName = "Visit-Based"
    THEN RMul(OrZero(week.totalVisitCount), stats.avgPaymentPerVisit)
    ELSE IF modelName = "Business Logic"
    THEN RMul(OrZero(week.totalChargeAmount), stats.avgCollectionRate)
    ELSE IF modelName = "Multi-Factor"
    THEN LET chargeComponent ==
                 RMul(RMul(OrZero(week.totalChargeAmount),
                           OrElse(week.weightedAvgCollectionPct, stats.avgCollectionRate)),
                      <<3, 5>>)
             visitComponent ==
                 RMul(RMul(OrZero(week.totalVisitCount), stats.avgPaymentPerVisit), <<2, 5>>)
         IN RAdd(chargeComponent, visitComponent)
    ELSE IF modelName = "Payer-Weighted"
    THEN LET basePayment == RMul(OrZero(week.totalVisitCount), stats.avgPaymentPerVisit)
             bcbsPct == OrZero(week.bcbsChargesPct)
             aetnaPct == OrZero(week.aetnaChargesPct)
             otherPct == RSub(RSub(One, bcbsPct), aetnaPct)
             payerAdjustment ==
                 RAdd(RAdd(RMul(bcbsPct, <<5, 4>>), RMul(aetnaPct, <<6, 5>>)),
                      RMul(otherPct, <<19, 20>>))
         IN RMul(basePayment, RMax(<<1, 2>>, payerAdjustment))
    ELSE RMul(OrZero(week.totalVisitCount), stats.avgPaymentPerVisit)

\* the formula classifyPerformance of analyzer.js re-applies: it has no
\* Payer-Weighted branch, the else branch is the visit-based formula
classifierPredictionJs(modelName, week, stats) ==
    IF modelName = "Visit-Based"
    THEN RMul(week.totalVisitCount, stats.avgPaymentPerVisit)
    ELSE IF modelName = "Business Logic"
    THEN RMul(week.totalChargeAmount, stats.avgCollectionRate)
    ELSE IF modelName = "Multi-Factor"
    THEN LET chargeComponent ==
                 RMul(RMul(week.totalChargeAmount, week.weightedAvgCollectionPct), <<3, 5>>)
             visitComponent ==
                 RMul(RMul(week.totalVisitCount, stats.avgPaymentPerVisit), <<2, 5>>)
         IN RAdd(chargeComponent, visitComponent)
    ELSE RMul(week.totalVisitCount, stats.avgPaymentPerVisit)

\* percentError = actual > 0 ? (predicted - actual) / actual : 0
percentErrorOf(actual, predicted) ==
    IF RGt(actual, Zero) THEN RDiv(RSub(predicted, actual), actual) ELSE Zero

\* the +-2.5% thresholds of classifyPerformance, both implementations
diagnosticOf(percentError) ==
    IF RLt(percentError, <<-1, 40>>) THEN "Under Performed"
    ELSE IF RGt(percentError, <<1, 40>>) THEN "Over Performed"
    ELSE "Average Performance"

\* one PerformanceRecord
performanceRecord(im, week, prediction) ==
    LET actual == IF im = "part_010" THEN OrZero(week.totalPayments) ELSE week.totalPayments
        predicted == IF im = "part_010" THEN OrZero(prediction) ELSE prediction
        percentError == percentErrorOf(actual, predicted)
    IN [weekKey |-> week.weekKey,
        year |-> week.year,
        week |-> week.week,
        actualPayments |-> actual,
        predictedPayments |-> predicted,
        absoluteError |-> RAbs(RSub(actual, predicted)),
        percentError |-> percentError,
        performanceDiagnostic |-> diagnosticOf(percentError),
        originalData |-> week.originalData]

classifyPerformance(im, feats, best, stats) ==
    [i \in 1..Len(feats) |->
        performanceRecord(im, feats[i],
            IF im = "part_010" THEN classifierPrediction010(best.modelName, feats[i], stats)
            ELSE classifierPredictionJs(best.modelName, feats[i], stats))]

-----------------------------------------------------------------------------
(* Phase 8: detailed weekly analysis *)

\* Number.prototype.toFixed(digits): the decimal string of x rounded to digits
\* places (ties rounded away from zero), as its sign-carrying integer of units
\* 10^-digits; "NaN", "Infinity" and "-Infinity" for the other numbers
toFixed(x, digits) ==
    IF IsNaN(x) THEN [special |-> "NaN", scaled |-> 0, digits |-> digits]
    ELSE IF ~IsFinite(x)
    THEN [special |-> IF x[1] > 0 THEN "Infinity" ELSE "-Infinity",
          scaled |-> 0, digits |-> digits]
    ELSE LET unit == IF digits = 0 THEN 1 ELSE IF digits = 1 THEN 10 ELSE 100
             n == Abs(x[1]) * unit
         IN [special |-> "",
             scaled |-> Sign(x[1]) * ((2 * n + x[2]) \div (2 * x[2])),
             digits |-> digits]

\* a piece of the text of a field: the words of its template and the values
\* the template quotes
Observation(text, args) == [text |-> text, args |-> args]

\* array.slice(0, 2)
firstTwo(s) == SubSeq(s, 1, IF Len(s) < 2 THEN Len(s) ELSE 2)

\* array.slice(-2).reverse()
lastTwoReversed(s) ==
    IF Len(s) = 0 THEN <<>>
    ELSE IF Len(s) = 1 THEN s
    ELSE <<s[Len(s)], s[Len(s) - 1]>>

\* parts.join('; ') || fallback: the pieces of the joined text, or the fallback
\* text when the array is empty
joinOrElse(parts, fallback) ==
    IF Len(parts) = 0 THEN <<Observation(fallback, <<>>)>> ELSE parts

\* the column of field f of an array of rows
column(rows, f) == [i \in 1..Len(rows) |-> rows[i][f]]

\* the benchmarks of generateDetailedAnalysis of part_010 (_.meanBy)
benchmarks010(allFeatures) ==
    [avgTotalPayments |-> lodashMean(column(allFeatures, "totalPayments")),
     avgTotalVisits |-> lodashMean(column(allFeatures, "totalVisitCount")),
     avgTotalCharges |-> lodashMean(column(allFeatures, "totalChargeAmount")),
     avgCollectionPct |-> lodashMean(column(allFeatures, "weightedAvgCollectionPct")),
     avgBCBSPct |-> lodashMean(column(allFeatures, "bcbsChargesPct")),
     avgAetnaPct |-> lodashMean(column(allFeatures, "aetnaChargesPct")),
     avgPaymentPerVisit |-> lodashMean(column(allFeatures, "avgPaymentPerVisit"))]

\* the payer analysis of analyzeWeek (part_010) for the charges of one payer
payerAnalysis010(payerName, charges, totalChargeAmount, avgPct) ==
    IF RGt(charges, Zero)
    THEN LET chargesPct == RDiv(charges, OrElse(totalChargeAmount, One))
         IN IF RGt(chargesPct, RMul(avgPct, <<13, 10>>))
            THEN <<Observation("Strong " \o payerName \o " presence",
                               <<toFixed(RMul(chargesPct, R(100)), 1), toFixed(charges, 0)>>)>>
            ELSE IF RLt(chargesPct, RMul(avgPct, <<7, 10>>))
            THEN <<Observation(payerName \o " underrepresented",
                               <<toFixed(RMul(chargesPct, R(100)), 1),
                                 toFixed(RMul(avgPct, R(100)), 1)>>)>>
            ELSE <<Observation(payerName \o " representation",
                               <<toFixed(RMul(chargesPct, R(100)), 1)>>)>>
    ELSE <<Observation("No " \o payerName \o " activity", <<>>)>>

\* analyzeWeek of part_010
analyzeWeek010(weekResult, benchmarks) ==
    LET week == weekResult.originalData
        when(test, observation) == IF test THEN <<observation>> ELSE <<>>
        over == weekResult.performanceDiagnostic = "Over Performed"
        under == weekResult.performanceDiagnostic = "Under Performed"
        rate == toFixed(RMul(OrZero(week.weightedAvgCollectionPct), R(100)), 1)
        avgRate == toFixed(RMul(benchmarks.avgCollectionPct, R(100)), 1)
        whatWentWell ==
            when(over /\ RGt(OrZero(week.totalVisitCount),
                             RMul(benchmarks.avgTotalVisits, <<23, 20>>)),
                 Observation("High visit volume",
                     <<week.totalVisitCount,
                       toFixed(RMul(RSub(RDiv(week.totalVisitCount, benchmarks.avgTotalVisits),
                                         One), R(100)), 1)>>))
            \o when(over /\ RGt(OrZero(week.totalChargeAmount),
                                RMul(benchmarks.avgTotalCharges, <<23, 20>>)),
                 Observation("Strong charge capture",
                     <<toFixed(week.totalChargeAmount, 0),
                       toFixed(RMul(RSub(RDiv(week.totalChargeAmount,
                                              benchmarks.avgTotalCharges), One), R(100)), 1)>>))
            \o when(over /\ RGt(OrZero(week.weightedAvgCollectionPct),
                                RMul(benchmarks.avgCollectionPct, <<11, 10>>)),
                 Observation("Excellent collection rate", <<rate, avgRate>>))
        whatCouldBeImproved ==
            when(under /\ RLt(OrZero(week.totalVisitCount),
                              RMul(benchmarks.avgTotalVisits, <<17, 20>>)),
                 Observation("Low visit volume",
                     <<week.totalVisitCount,
                       toFixed(RMul(RSub(One, RDiv(week.totalVisitCount,
                                                   benchmarks.avgTotalVisits)), R(100)), 1)>>))
            \o when(under /\ RLt(OrZero(week.weightedAvgCollectionPct),
                                 RMul(benchmarks.avgCollectionPct, <<9, 10>>)),
                 Observation("Collection rate below average", <<rate, avgRate>>))
            \o when(under /\ RLt(OrZero(week.totalChargeAmount),
                                 RMul(benchmarks.avgTotalCharges, <<17, 20>>)),
                 Observation("Charge amount below average",
                     <<toFixed(week.totalChargeAmount, 0),
                       toFixed(benchmarks.avgTotalCharges, 0)>>))
    IN [whatWentWell |-> firstTwo(whatWentWell),
        whatCouldBeImproved |-> firstTwo(whatCouldBeImproved),
        aetnaAnalysis |-> firstTwo(payerAnalysis010("Aetna", week.aetnaCharges,
                                       week.totalChargeAmount, benchmarks.avgAetnaPct)),
        bcbsAnalysis |-> firstTwo(payerAnalysis010("BCBS", week.bcbsCharges,
                                      week.totalChargeAmount, benchmarks.avgBCBSPct))]

\* the keys of a weekVariables entry of analyzeWeekPerformance, without payer
metricKeys ==
    <<"chargeAmount", "avgPayment", "avgEMWeight", "collectionPct", "totalPayments",
      "visitCount", "visitsWithLabCount">>

\* the detail records of the weeks a previous run stored in analysisResults,
\* then those of the given weeks
flatMapStoredAndGiven(weekly) ==
    LET stored == IF Len(previousRuns) = 0 THEN <<>>
                  ELSE previousRuns[Len(previousRuns)].analysisResults.performanceResults
    IN Flatten([i \in 1..Len(stored) |-> stored[i].originalData.detailRecords]
               \o [i \in 1..Len(weekly) |-> weekly[i].detailRecords])

\* weeklyData.flatMap(w => w.detailRecords)
flatMapDetailRecords(weekly) == Flatten([i \in 1..Len(weekly) |-> weekly[i].detailRecords])

\* averages[payer][key] of analyzeWeekPerformance
payerAverage(allWeeksData, payer, key) ==
    LET ofPayer(record) == record.payer = payer
    IN mean(column(SelectSeq(allWeeksData, ofPayer), key))

\* (a, b) => b.percentDiff - a.percentDiff
byPercentDiff(a, b) == RSub(b.percentDiff, a.percentDiff)

\* (a, b) => Math.abs(b.percentDiff) - Math.abs(a.percentDiff)
byAbsPercentDiff(a, b) == RSub(RAbs(b.percentDiff), RAbs(a.percentDiff))

\* metrics.sort(compare), stable, with one of the two comparators above: each
\* element is inserted after the last element that does not compare greater
RECURSIVE sortMetrics(_, _)
sortMetrics(s, absolute) ==
    IF Len(s) <= 1 THEN s
    ELSE LET init == sortMetrics(SubSeq(s, 1, Len(s) - 1), absolute)
             x == s[Len(s)]
             compare(a, b) == IF absolute THEN byAbsPercentDiff(a, b) ELSE byPercentDiff(a, b)
             pos == Cardinality({i \in 1..Len(init) :
                        \A j \in 1..i : ~RGt(compare(init[j], x), Zero)})
         IN SubSeq(init, 1, pos) \o <<x>> \o SubSeq(init, pos + 1, Len(init))

\* the description of a performance metric
describe(metric) ==
    Observation("The payer - metric is, while its overall average is",
                <<metric.payer, metric.metric,
                  toFixed(metric.currentValue, 2), toFixed(metric.avgValue, 2)>>)

\* analyzeWeekPerformance of analyzer.js; thisWeeklyData is this.weeklyData
analyzeWeekPerformance(week, thisWeeklyData) ==
    LET weekVariables == week.detailRecords
        allWeeksData == flatMapDetailRecords(thisWeeklyData)
        nKeys == Len(metricKeys)
        candidates ==
            [n \in 1..(Len(weekVariables) * nKeys) |->
                LET variable == weekVariables[((n - 1) \div nKeys) + 1]
                    key == metricKeys[((n - 1) % nKeys) + 1]
                    avgValue == payerAverage(allWeeksData, variable.payer, key)
                    currentValue == variable[key]
                IN [payer |-> variable.payer,
                    metric |-> key,
                    currentValue |-> currentValue,
                    avgValue |-> avgValue,
                    percentDiff |-> RMul(RDiv(RSub(currentValue, avgValue), avgValue),
                                         R(100))]]
        truthyAverage(metric) == metric.avgValue # Zero /\ ~IsNaN(metric.avgValue)
        performanceMetrics == sortMetrics(SelectSeq(candidates, truthyAverage), FALSE)
        ofAetna(metric) == metric.payer = "17-AETNA"
        ofBcbs(metric) == metric.payer = "2-BCBS"
        descriptions(metrics) == [i \in 1..Len(metrics) |-> describe(metrics[i])]
    IN [whatWentWell |-> descriptions(firstTwo(performanceMetrics)),
        whatCouldBeImproved |-> descriptions(lastTwoReversed(performanceMetrics)),
        aetnaAnalysis |->
            descriptions(firstTwo(sortMetrics(SelectSeq(performanceMetrics, ofAetna), TRUE))),
        bcbsAnalysis |->
            descriptions(firstTwo(sortMetrics(SelectSeq(performanceMetrics, ofBcbs), TRUE)))]

\* the fallback texts of the two performance fields
WentWellFallback == "Performance within expected parameters"
ImprovedFallback == "No significant issues identified"

\* one record of the result of generateDetailedAnalysis
detailedResult(im, weekResult, analysis) ==
    ("Year" :> weekResult.year)
    @@ ("Week" :> weekResult.week)
    @@ ("Actual Total Payments" :> toFixed(weekResult.actualPayments, 2))
    @@ ("Predicted Total Payments" :> toFixed(weekResult.predictedPayments, 2))
    @@ ("Absolute Error" :> toFixed(weekResult.absoluteError, 2))
    @@ ("Percent Error" :> toFixed(RMul(weekResult.percentError, R(100)), 1))
    @@ ("Performance Diagnostic" :> weekResult.performanceDiagnostic)
    @@ ("What Went Well" :> joinOrElse(analysis.whatWentWell, WentWellFallback))
    @@ ("What Could Be Improved" :> joinOrElse(analysis.whatCouldBeImproved, ImprovedFallback))
    @@ ("Aetna Analysis" :>
           IF im = "part_010" THEN joinOrElse(analysis.aetnaAnalysis, "Aetna performance stable")
           ELSE analysis.aetnaAnalysis)
    @@ ("BCBS Analysis" :>
           IF im = "part_010" THEN joinOrElse(analysis.bcbsAnalysis, "BCBS performance stable")
           ELSE analysis.bcbsAnalysis)

\* generateDetailedAnalysis; analyzer.js reads this.weeklyData in
\* analyzeWeekPerformance
generateDetailedAnalysis(im, perfResults, allFeatures, thisWeeklyData) ==
    [i \in 1..Len(perfResults) |->
        detailedResult(im, perfResults[i],
            IF im = "part_010"
            THEN analyzeWeek010(perfResults[i], benchmarks010(allFeatures))
            ELSE analyzeWeekPerformance(perfResults[i].originalData, thisWeeklyData))]

\* this.analysisResults as runAnalysis (part_001) and runCompleteAnalysis
\* (analyzer.js) store it; part_001 stores the EvaluationResults as well
storedResults(im, best, correlations, perfResults, final, feats, evaluation) ==
    LET payments == column(feats, "totalPayments")
        avgPayments == IF im = "part_010" THEN lodashMean(payments) ELSE mean(payments)
        common ==
            [methodology |-> "Proper train/test split with statistical validation",
             bestModel |-> best,
             trainCorrelations |-> correlations,
             performanceResults |-> perfResults,
             finalResults |-> final,
             benchmarks |->
                 [totalWeeks |-> Len(feats),
                  avgAccuracy |->
                      toFixed(RMul(RSub(One, RDiv(best.mae, avgPayments)), R(100)), 1),
                  modelMAE |-> best.mae]]
    IN IF im = "part_010" THEN common @@ [modelResults |-> evaluation] ELSE common

-----------------------------------------------------------------------------
(* Inputs of the pipeline: the BillingRecord arrays the extractor hands over *)

\* the most records in an enumerated array of freely chosen records
MaxRecs == 2

\* the most weeks in an enumerated array with one record per week
MaxWeeks == 6

W1 == <<"W", "1">>
W2 == <<"W", "2">>
W3 == <<"W", "3">>
W10 == <<"W", "1", "0">>

\* a BillingRecord as the extractor builds it (the derived fields included)
MkRecord(year, week, payer, chargeAmount, collectionPct, totalPayments, visitCount) ==
    [year |-> year, week |-> week, payer |-> payer, emGroup |-> "E/M 3",
     paymentsPctOfTotal |-> Zero, avgPayment |-> Zero, avgEMWeight |-> Zero,
     chargeAmount |-> chargeAmount, collectionPct |-> collectionPct,
     totalPayments |-> totalPayments, visitCount |-> visitCount,
     visitsWithLabCount |-> Zero,
     pctVisitsWithLabs |-> Zero,
     paymentPerVisit |-> IF RGt(visitCount, Zero) THEN RDiv(totalPayments, visitCount)
                         ELSE Zero]

\* freely chosen records: week W10 sorts before week W2
FreeRecords ==
    {MkRecord(2024, W10, "3-MEDICARE", c, One, p, v) :
        c \in {Zero, R(4)}, p \in {R(5), R(6)}, v \in {Zero, One}}
    \cup
    {MkRecord(2024, W2, payer, R(4), One, p, v) :
        payer \in {"2-BCBS", "3-MEDICARE"}, p \in {R(5), R(6)}, v \in {Zero, One}}
    \cup
    {MkRecord(2024, W2, "3-MEDICARE", cc[1], cc[2], R(5), v) :
        cc \in {<<Zero, One>>, <<R(4), Zero>>}, v \in {Zero, One}}

\* records of one week that differ in payer only
PayerRecords ==
    {MkRecord(2024, W1, pp[1], R(4), <<1, 2>>, pp[2], One) :
        pp \in {<<"2-BCBS", R(100)>>, <<"17-AETNA", R(150)>>, <<"1-SELF PAY", R(2)>>,
                <<"5-COMMERCIAL", R(3)>>, <<"3-MEDICARE", R(1)>>}}

SeqsUpTo(S, n) == UNION {[1..k -> S] : k \in 0..n}

\* the weeks of the one-record-per-week arrays, in chronological order
WeekPool ==
    <<<<2024, W1>>, <<2024, W2>>, <<2024, W3>>, <<2024, W10>>,
      <<2025, W1>>, <<2025, W2>>, <<2025, W10>>>>

\* the record of pool week k under one of the value patterns
PatternRecord(pattern, k) ==
    LET wk == WeekPool[k]
    IN IF pattern = 1
       THEN MkRecord(wk[1], wk[2], "3-MEDICARE", R(4), One, R(5), One)
       ELSE MkRecord(wk[1], wk[2],
                     <<"2-BCBS", "17-AETNA", "3-MEDICARE">>[(k % 3) + 1],
                     R(3 + (k % 3)), <<1, 2>>, R(1 + ((k * k) % 4)), R(1 + (k % 2)))

\* the increasing enumeration of a set of pool indices
RECURSIVE SetToSeq(_)
SetToSeq(S) ==
    IF S = {} THEN <<>>
    ELSE LET m == CHOOSE x \in S : \A y \in S : y <= x
         IN Append(SetToSeq(S \ {m}), m)

WeeklyInputs ==
    {[i \in 1..Cardinality(S) |-> PatternRecord(pattern, SetToSeq(S)[i])] :
        S \in {T \in SUBSET (1..Len(WeekPool)) : Cardinality(T) <= MaxWeeks},
        pattern \in {1, 2}}

\* records with negative amounts: cleanExcelData of analyzer.js pushes every
\* record without validation, part_010 drops these
UnvalidatedRecords ==
    {MkRecord(2024, wp[1], wp[2], c, One, p, One) :
        wp \in {<<W2, "2-BCBS">>, <<W10, "3-MEDICARE">>},
        c \in {R(-2), R(4)}, p \in {R(-5), R(5)}}

\* six weeks with amounts in the hundreds and thousands: four training weeks
\* that collect 100% and 10 per visit, then two test weeks
LargeAmounts ==
    [i \in 1..4 |-> MkRecord(2024, WeekPool[i][2], "3-MEDICARE", R(10), One, R(10), One)]
    \o <<MkRecord(2025, W1, "2-BCBS", R(580), One, R(1180), R(62)),
         MkRecord(2025, W2, "3-MEDICARE", R(4300), One, R(4300), R(410))>>

\* the arrays both extractors can produce
Inputs == SeqsUpTo(FreeRecords, MaxRecs) \cup SeqsUpTo(PayerRecords, MaxRecs)
          \cup WeeklyInputs

\* the arrays the extractor of an implementation can produce
InputsOf(im) ==
    IF im = "part_010"
    THEN {d \in Inputs : \A i \in 1..Len(d) : validateRecord(d[i])}
    ELSE Inputs \cup SeqsUpTo(UnvalidatedRecords, MaxRecs)

\* the most data rows in an enumerated sheet
MaxRows == 3

\* the header row of a sheet
Headers == [headers |-> "A-L"]

\* a data row: columns A-D and the numeric cells
MkRow(A, B, C, D, chargeAmount, collectionPct, totalPayments, visitCount) ==
    [A |-> A, B |-> B, C |-> C, D |-> D,
     paymentsPct |-> UndefinedCell, avgPayment |-> UndefinedCell,
     avgEMWeight |-> UndefinedCell,
     chargeAmount |-> chargeAmount, collectionPct |-> collectionPct,
     totalPayments |-> totalPayments, visitCount |-> visitCount,
     visitsWithLabCount |-> UndefinedCell]

\* rows with an E/M group and valid numbers whose year, week and payer cells are
\* each a value or a hole
GroupedRows ==
    {MkRow(A, B, C, Cell("value", "E/M 3"),
           NumberCell(R(4)), NumberCell(One), NumberCell(R(5)), NumberCell(One)) :
        A \in {Cell("undefined", 0), Cell("value", 2025)},
        B \in {Cell("undefined", <<>>), Cell("value", W2)},
        C \in {Cell("undefined", ""), Cell("value", "2-BCBS")}}

\* a complete row; a row without E/M group; a row with a negative payment; a
\* row whose blanks are null and ''; a row of year 0; an empty row; a row whose
\* numbers are strings ("$4", "50%", "5", "1")
OtherRows ==
    {MkRow(Cell("value", 2024), Cell("value", W1), Cell("value", "3-MEDICARE"),
           Cell("value", "E/M 3"),
           NumberCell(R(4)), NumberCell(One), NumberCell(R(5)), NumberCell(One)),
     MkRow(Cell("value", 2024), Cell("value", W10), Cell("value", "17-AETNA"),
           Cell("undefined", ""),
           NumberCell(R(4)), NumberCell(One), NumberCell(R(5)), NumberCell(One)),
     MkRow(Cell("value", 2024), Cell("value", W3), Cell("value", "1-SELF PAY"),
           Cell("value", "E/M 3"),
           NumberCell(R(4)), NumberCell(One), NumberCell(R(-5)), NumberCell(One)),
     MkRow(Cell("null", 0), Cell("empty", <<>>), Cell("null", ""),
           Cell("value", "E/M 3"),
           NumberCell(R(4)), NumberCell(One), NumberCell(R(5)), NumberCell(One)),
     MkRow(Cell("value", 0), Cell("undefined", <<>>), Cell("undefined", ""),
           Cell("value", "E/M 3"),
           NumberCell(R(4)), NumberCell(One), NumberCell(R(5)), NumberCell(One)),
     MkRow(Cell("undefined", 0), Cell("undefined", <<>>), Cell("undefined", ""),
           Cell("undefined", ""),
           UndefinedCell, UndefinedCell, UndefinedCell, UndefinedCell),
     MkRow(Cell("undefined", 0), Cell("undefined", <<>>), Cell("undefined", ""),
           Cell("value", "E/M 4"),
           StringCell(TRUE, R(4), FALSE), StringCell(FALSE, R(50), TRUE),
           StringCell(FALSE, R(5), FALSE), StringCell(FALSE, One, FALSE))}

\* the sheets sheet_to_json can hand over: an empty sheet, or a header row and
\* up to MaxRows data rows
Sheets ==
    {<<>>} \cup {<<Headers>> \o rows : rows \in SeqsUpTo(GroupedRows \cup OtherRows, MaxRows)}


-----------------------------------------------------------------------------
(* The pipeline as a state machine.  part_010 is driven stage by stage by its  *)
(* caller (src/unnamed/part_001, runAnalysis); analyzer.js by its own           *)
(* runCompleteAnalysis.                                                         *)

Null == <<>>

\* no controller: the pipeline, the extractor and the retry run without one
NoApp == [variant |-> "none"]

Init ==
    /\ impl \in Impls
    /\ pc = "cleaned"
    /\ rawData = Null
    /\ rowIndex = 0
    /\ currentValues = noCarriedValues
    /\ cleanedData \in InputsOf(impl)
    /\ weeklyData = Null
    /\ features = Null
    /\ split = Null
    /\ models = Null
    /\ results = Null
    /\ bestModel = Null
    /\ trainStats = Null
    /\ performanceResults = Null
    /\ columnMap = Null
    /\ finalResults = Null
    /\ analysisResults = Null
    /\ previousRuns = <<>>
    /\ runCount = 1
    /\ retry = Null
    /\ app = NoApp

AggregateByWeek ==
    /\ pc = "cleaned"
    /\ weeklyData' = aggregateByWeek(impl, cleanedData)
    /\ pc' = "aggregated"
    /\ UNCHANGED <<impl, rawData, rowIndex, currentValues, cleanedData, features, split, models, results,
                   bestModel, trainStats, performanceResults>>
    /\ UNCHANGED columnMap
    /\ UNCHANGED finalResults
    /\ UNCHANGED analysisResults
    /\ UNCHANGED previousRuns
    /\ UNCHANGED runCount
    /\ UNCHANGED retry
    /\ UNCHANGED app

EngineerFeatures ==
    /\ pc = "aggregated"
    /\ features' = engineerFeatures(impl, weeklyData)
    /\ pc' = "engineered"
    /\ UNCHANGED <<impl, rawData, rowIndex, currentValues, cleanedData, weeklyData, split, models, results,
                   bestModel, trainStats, performanceResults>>
    /\ UNCHANGED columnMap
    /\ UNCHANGED finalResults
    /\ UNCHANGED analysisResults
    /\ UNCHANGED previousRuns
    /\ UNCHANGED runCount
    /\ UNCHANGED retry
    /\ UNCHANGED app

\* analyzer.js sorts this.features in place (features.sort); part_010 sorts a copy
CreateTrainTestSplit ==
    /\ pc = "engineered"
    /\ \/ /\ splitThrows(impl, features)
          /\ pc' = "failed"
          /\ UNCHANGED <<features, split>>
       \/ /\ ~splitThrows(impl, features)
          /\ split' = createTrainTestSplit(impl, features)
          /\ features' = IF impl = "analyzer.js" THEN sortWeeks(features) ELSE features
          /\ pc' = "split"
    /\ UNCHANGED <<impl, rawData, rowIndex, currentValues, cleanedData, weeklyData, models, results,
                   bestModel, trainStats, performanceResults>>
    /\ UNCHANGED columnMap
    /\ UNCHANGED finalResults
    /\ UNCHANGED analysisResults
    /\ UNCHANGED previousRuns
    /\ UNCHANGED runCount
    /\ UNCHANGED retry
    /\ UNCHANGED app

DevelopModels ==
    /\ pc = "split"
    /\ models' = developModels(impl, split.trainData, split.testData)
    /\ pc' = "developed"
    /\ UNCHANGED <<impl, rawData, rowIndex, currentValues, cleanedData, weeklyData, features, split, results,
                   bestModel, trainStats, performanceResults>>
    /\ UNCHANGED columnMap
    /\ UNCHANGED finalResults
    /\ UNCHANGED analysisResults
    /\ UNCHANGED previousRuns
    /\ UNCHANGED runCount
    /\ UNCHANGED retry
    /\ UNCHANGED app

EvaluateModels ==
    /\ pc = "developed"
    /\ results' = evaluateResults(impl, models, split.testData)
    /\ bestModel' = reduceBest(impl, results')
    /\ trainStats' = models.trainStats
    /\ pc' = "evaluated"
    /\ UNCHANGED <<impl, rawData, rowIndex, currentValues, cleanedData, weeklyData, features, split, models,
                   performanceResults>>
    /\ UNCHANGED columnMap
    /\ UNCHANGED finalResults
    /\ UNCHANGED analysisResults
    /\ UNCHANGED previousRuns
    /\ UNCHANGED runCount
    /\ UNCHANGED retry
    /\ UNCHANGED app

ClassifyPerformance ==
    /\ pc = "evaluated"
    /\ performanceResults' = classifyPerformance(impl, features, bestModel, trainStats)
    /\ pc' = "classified"
    /\ UNCHANGED <<impl, rawData, rowIndex, currentValues, cleanedData, weeklyData, features, split, models,
                   results, bestModel, trainStats>>
    /\ UNCHANGED columnMap
    /\ UNCHANGED finalResults
    /\ UNCHANGED analysisResults
    /\ UNCHANGED previousRuns
    /\ UNCHANGED runCount
    /\ UNCHANGED retry
    /\ UNCHANGED app

\* generateDetailedAnalysis, the last stage of runAnalysis and runCompleteAnalysis
GenerateDetailedAnalysis ==
    /\ pc = "classified"
    /\ finalResults' = generateDetailedAnalysis(impl, performanceResults, features, weeklyData)
    /\ analysisResults' = storedResults(impl, bestModel, split.trainCorrelations,
                                        performanceResults, finalResults', features, results)
    /\ pc' = "analysed"
    /\ UNCHANGED <<impl, rawData, rowIndex, currentValues, cleanedData, weeklyData, features, split,
                   models, results, bestModel, trainStats, performanceResults, columnMap,
                   previousRuns, runCount>>
    /\ UNCHANGED retry
    /\ UNCHANGED app

Next ==
    \/ AggregateByWeek
    \/ EngineerFeatures
    \/ CreateTrainTestSplit
    \/ DevelopModels
    \/ EvaluateModels
    \/ ClassifyPerformance
    \/ GenerateDetailedAnalysis

Spec == Init /\ [][Next]_vars

\* the pipeline on the arrays of Init and on LargeAmounts
InitLargeAmounts ==
    /\ impl \in Impls
    /\ pc = "cleaned"
    /\ rawData = Null
    /\ rowIndex = 0
    /\ currentValues = noCarriedValues
    /\ cleanedData \in InputsOf(impl) \cup {LargeAmounts}
    /\ weeklyData = Null
    /\ features = Null
    /\ split = Null
    /\ models = Null
    /\ results = Null
    /\ bestModel = Null
    /\ trainStats = Null
    /\ performanceResults = Null
    /\ columnMap = Null
    /\ finalResults = Null
    /\ analysisResults = Null
    /\ previousRuns = <<>>
    /\ runCount = 1
    /\ retry = Null
    /\ app = NoApp

SpecLargeAmounts == InitLargeAmounts /\ [][Next]_vars

-----------------------------------------------------------------------------
(* The extractor as a state machine: loadAndCleanData of part_010 and          *)
(* cleanExcelData of analyzer.js, one pass of the row loop per step.           *)

InitExtract ==
    /\ impl \in Impls
    /\ pc = "loading"
    /\ rawData \in Sheets
    /\ rowIndex = 0
    /\ currentValues = noCarriedValues
    /\ cleanedData = <<>>
    /\ weeklyData = Null
    /\ features = Null
    /\ split = Null
    /\ models = Null
    /\ results = Null
    /\ bestModel = Null
    /\ trainStats = Null
    /\ performanceResults = Null
    /\ columnMap = Null
    /\ finalResults = Null
    /\ analysisResults = Null
    /\ previousRuns = <<>>
    /\ runCount = 1
    /\ retry = Null
    /\ app = NoApp

LoadFails ==
    /\ pc = "loading"
    /\ loadThrows(impl, rawData)
    /\ pc' = "failed"
    /\ UNCHANGED <<impl, rawData, rowIndex, currentValues, cleanedData, weeklyData,
                   features, split, models, results, bestModel, trainStats,
                   performanceResults>>
    /\ UNCHANGED columnMap
    /\ UNCHANGED finalResults
    /\ UNCHANGED analysisResults
    /\ UNCHANGED previousRuns
    /\ UNCHANGED runCount
    /\ UNCHANGED retry
    /\ UNCHANGED app

ExtractRow ==
    /\ pc = "loading"
    /\ ~loadThrows(impl, rawData)
    /\ rowIndex < Len(dataRowsOf(rawData))
    /\ LET row == dataRowsOf(rawData)[rowIndex + 1]
           carried == carriedValues(currentValues, row)
       IN /\ currentValues' = carried
          /\ cleanedData' = cleanedData \o pushedRecords(impl, carried, row)
    /\ rowIndex' = rowIndex + 1
    /\ UNCHANGED <<impl, pc, rawData, weeklyData, features, split, models, results,
                   bestModel, trainStats, performanceResults>>
    /\ UNCHANGED columnMap
    /\ UNCHANGED finalResults
    /\ UNCHANGED analysisResults
    /\ UNCHANGED previousRuns
    /\ UNCHANGED runCount
    /\ UNCHANGED retry
    /\ UNCHANGED app

FinishExtraction ==
    /\ pc = "loading"
    /\ ~loadThrows(impl, rawData)
    /\ rowIndex = Len(dataRowsOf(rawData))
    /\ pc' = "cleaned"
    /\ UNCHANGED <<impl, rawData, rowIndex, currentValues, cleanedData, weeklyData,
                   features, split, models, results, bestModel, trainStats,
                   performanceResults>>
    /\ UNCHANGED columnMap
    /\ UNCHANGED finalResults
    /\ UNCHANGED analysisResults
    /\ UNCHANGED previousRuns
    /\ UNCHANGED runCount
    /\ UNCHANGED retry
    /\ UNCHANGED app

NextExtract ==
    \/ LoadFails
    \/ ExtractRow
    \/ FinishExtraction

SpecExtract == InitExtract /\ [][NextExtract]_vars

-----------------------------------------------------------------------------
(* Properties *)

SplitDone == pc \in {"split", "developed", "evaluated", "classified"}

\* the feature rows with the rows at the positions J given other target and
\* charge values
MutateRows(feats, J, payments, charges) ==
    [i \in 1..Len(feats) |->
        IF i \in J
        THEN [feats[i] EXCEPT !.totalPayments = payments, !.totalChargeAmount = charges]
        ELSE feats[i]]

\* pairs of a totalPayments and a totalChargeAmount value
MutationValues == {<<Zero, Zero>>, <<R(7), <<1001, 10>>>>, <<<<1001, 10>>, R(7)>>}

\* C1: no data leakage.  Whatever values one or more rows of the test partition are given
\* (their totalPayments and totalChargeAmount here), a rerun of createTrainTestSplit
\* returns the trainCorrelations of this run.
C1_NoLeakage ==
    pc = "split" =>
        LET n == Len(features)
            testRows == (Len(split.trainData) + 1)..n
        IN \A J \in (SUBSET testRows) \ {{}} : \A m \in MutationValues :
               createTrainTestSplit(impl, MutateRows(features, J, m[1], m[2])).trainCorrelations
                   = split.trainCorrelations

\* a split whose training correlation of totalChargeAmount is not 0 and differs
\* from the correlation over all weeks, with a test week to mutate
C1_Witness ==
    /\ pc = "split"
    /\ Len(split.testData) >= 1
    /\ split.trainCorrelations["totalChargeAmount"].sign # 0
    /\ LET all == split.trainData \o split.testData
           whole == IF impl = "part_010" THEN trainCorrelations010(all)
                    ELSE calculateCorrelations(all)
       IN whole["totalChargeAmount"] # split.trainCorrelations["totalChargeAmount"]

\* the number of a week label: the digits after the letter W
weekNumber(label) == LeadingDigitsValue(Tail(label), 0)

\* (year, week) of a is no later than (year, week) of b in calendar order
NoLaterThan(a, b) ==
    \/ RLt(a.year, b.year)
    \/ a.year = b.year /\ weekNumber(a.week) <= weekNumber(b.week)

\* C2: chronological split invariant.  Every week of trainData is no later than
\* every week of testData in calendar order, week labels ordered by week number.
C2_ChronologicalSplit ==
    SplitDone =>
        \A i \in 1..Len(split.trainData) : \A j \in 1..Len(split.testData) :
            NoLaterThan(split.trainData[i], split.testData[j])

\* C3: the split is a hard cutoff.  createTrainTestSplit returns for every
\* sequence of n >= 1 feature rows; trainData is the first floor(0.8 n) rows of
\* the sorted sequence and testData the rest: together they are the whole
\* sequence in its order, no week is in both, and testData is not empty when
\* n >= 1.
C3_PrefixSuffixSplit ==
    (SplitDone \/ (pc = "failed" /\ Len(features) >= 1)) =>
        LET n == Len(features)
            k == (4 * n) \div 5
        IN /\ pc # "failed"
           /\ split.trainData = SubSeq(features, 1, k)
           /\ split.testData = SubSeq(features, k + 1, n)
           /\ split.trainData \o split.testData = features
           /\ \A i \in 1..Len(split.trainData) : \A j \in 1..Len(split.testData) :
                  split.trainData[i].weekKey # split.testData[j].weekKey
           /\ (n >= 1 => Len(split.testData) >= 1)

\* C4: classification.  Every PerformanceRecord has percentError =
\* (predicted - actual) / actual when actual is not 0 and 0 when it is, and the
\* one diagnostic the +-2.5% thresholds give (a value on a threshold is Average).
C4_PercentErrorAndDiagnostic ==
    pc = "classified" =>
        \A i \in 1..Len(performanceResults) :
            LET r == performanceResults[i]
                expected == IF r.actualPayments # Zero
                            THEN RDiv(RSub(r.predictedPayments, r.actualPayments),
                                      r.actualPayments)
                            ELSE Zero
            IN /\ r.percentError = expected
               /\ r.performanceDiagnostic = "Under Performed" <=> RLt(expected, <<-25, 1000>>)
               /\ r.performanceDiagnostic = "Over Performed" <=> RGt(expected, <<25, 1000>>)
               /\ r.performanceDiagnostic = "Average Performance" <=>
                      (RGe(expected, <<-25, 1000>>) /\ RLe(expected, <<25, 1000>>))

\* the formula developModels gives the model of that name
ownFormula(im, name, week, stats) ==
    IF im = "part_010" THEN modelPrediction010(name, week, stats)
    ELSE modelPredictionJs(name, week, stats)

\* C5: the classifier re-applies the winning model.  There is one PerformanceRecord
\* per FeatureRow, in order; its predictedPayments is the winning model's own
\* formula on that week, and on a test week it is the prediction evaluateModels
\* scored for that week.
C5_ClassifierAppliesWinner ==
    pc = "classified" =>
        /\ Len(performanceResults) = Len(features)
        /\ \A i \in 1..Len(features) :
               /\ performanceResults[i].weekKey = features[i].weekKey
               /\ performanceResults[i].predictedPayments
                      = ownFormula(impl, bestModel.modelName, features[i], trainStats)
        /\ \A j \in 1..Len(split.testData) :
               performanceResults[Len(split.trainData) + j].predictedPayments
                   = bestModel.predictions[j]

\* C6: selection.  bestModel has the lowest test MAE, or it is within 100 of the
\* lowest MAE with a higher rSquared than a model of lowest MAE; in every case its
\* MAE is less than the lowest MAE plus 100.
C6_LowestMaeWithinTieBreak ==
    pc \in {"evaluated", "classified"} =>
        LET lowest == {m \in 1..4 : \A k \in 1..4 : RLe(results[m].mae, results[k].mae)}
        IN \A m \in lowest :
               /\ RLt(bestModel.mae, RAdd(results[m].mae, R(100)))
               /\ \/ bestModel.mae = results[m].mae
                  \/ RGt(bestModel.rSquared, results[m].rSquared)

\* the sum of field f over the records of data at the positions in S, in any order
RECURSIVE FieldSum(_, _, _)
FieldSum(data, S, f) ==
    IF S = {} THEN Zero
    ELSE LET i == CHOOSE x \in S : TRUE
         IN RAdd(data[i][f], FieldSum(data, S \ {i}, f))

Reverse(s) == [i \in 1..Len(s) |-> s[Len(s) + 1 - i]]

\* C7: aggregation.  There is exactly one WeeklyAggregate per distinct (year, week)
\* of the records, its three totals are the sums over exactly the records of that
\* (year, week), and the records in reverse order give the same totals.
C7_OneAggregatePerWeekWithSums ==
    pc = "aggregated" =>
        LET weeks == {<<cleanedData[i].year, cleanedData[i].week>> : i \in 1..Len(cleanedData)}
            reversed == aggregateByWeek(impl, Reverse(cleanedData))
        IN /\ Len(weeklyData) = Cardinality(weeks)
           /\ Len(reversed) = Len(weeklyData)
           /\ \A w \in weeks :
                  LET key == DigitChars(w[1]) \o <<"-">> \o w[2]
                      at == {i \in 1..Len(weeklyData) : weeklyData[i].weekKey = key}
                      recs == {i \in 1..Len(cleanedData) :
                                  cleanedData[i].year = w[1] /\ cleanedData[i].week = w[2]}
                  IN /\ Cardinality(at) = 1
                     /\ \A a \in at :
                          /\ weeklyData[a].totalPayments = FieldSum(cleanedData, recs, "totalPayments")
                          /\ weeklyData[a].totalChargeAmount = FieldSum(cleanedData, recs, "chargeAmount")
                          /\ weeklyData[a].totalVisitCount = FieldSum(cleanedData, recs, "visitCount")
                          /\ reversed[a].weekKey = key
                          /\ reversed[a].totalPayments = weeklyData[a].totalPayments
                          /\ reversed[a].totalChargeAmount = weeklyData[a].totalChargeAmount
                          /\ reversed[a].totalVisitCount = weeklyData[a].totalVisitCount

\* two records of one week with totalPayments 100 and 150 aggregated to 250,
\* beside the aggregate of another week
C7_Witness ==
    /\ pc = "aggregated"
    /\ Len(cleanedData) = 2
    /\ cleanedData[1].totalPayments = R(100)
    /\ cleanedData[2].totalPayments = R(150)
    /\ Len(weeklyData) = 1
    /\ weeklyData[1].totalPayments = R(250)

\* C8: payer sub-totals (part_010, the implementation with a commercial payer).
\* In every WeeklyAggregate the four payer charge sub-totals sum to at most
\* totalChargeAmount; in every FeatureRow the four payer percentages are in [0, 1]
\* and sum to at most 1.
C8_PayerShares ==
    impl = "part_010" =>
        /\ pc = "aggregated" =>
               \A i \in 1..Len(weeklyData) :
                   LET w == weeklyData[i]
                   IN RLe(RAdd(RAdd(w.bcbsCharges, w.aetnaCharges),
                               RAdd(w.selfPayCharges, w.commercialCharges)),
                          w.totalChargeAmount)
        /\ pc = "engineered" =>
               \A i \in 1..Len(features) :
                   LET f == features[i]
                       shares == {f.bcbsChargesPct, f.aetnaChargesPct,
                                  f.selfPayChargesPct, f.commercialChargesPct}
                   IN /\ \A x \in shares : RGe(x, Zero) /\ RLe(x, One)
                      /\ RLe(RAdd(RAdd(f.bcbsChargesPct, f.aetnaChargesPct),
                                  RAdd(f.selfPayChargesPct, f.commercialChargesPct)),
                             One)

\* a week of a commercial and a BCBS record: the shares are positive and sum to 1
C8_Witness ==
    /\ impl = "part_010"
    /\ pc = "engineered"
    /\ \E i \in 1..Len(features) :
           /\ RGt(features[i].commercialChargesPct, Zero)
           /\ RGt(features[i].bcbsChargesPct, Zero)
           /\ RAdd(features[i].commercialChargesPct, features[i].bcbsChargesPct) = One

\* the derived fields of a WeeklyAggregate and of a FeatureRow
derivedOfAggregate(w) ==
    {w.weightedAvgCollectionPct, w.avgPaymentPerVisit, w.pctVisitsWithLabs,
     w.bcbsCollectionPct, w.aetnaCollectionPct, w.selfPayCollectionPct}

payerSharesOf(im, f) ==
    {f.bcbsChargesPct, f.aetnaChargesPct, f.selfPayChargesPct}
    \cup (IF im = "part_010" THEN {f.commercialChargesPct, f.highValuePayerPct} ELSE {})

\* C9: zero guard.  A week without visits has avgPaymentPerVisit 0 and
\* chargesPerVisit 0, a week without charges has weightedAvgCollectionPct 0 and
\* payer percentages 0, and no derived field is NaN or infinite.
C9_ZeroGuard ==
    /\ pc = "aggregated" =>
           \A i \in 1..Len(weeklyData) :
               LET w == weeklyData[i]
               IN /\ w.totalVisitCount = Zero => w.avgPaymentPerVisit = Zero
                  /\ w.totalChargeAmount = Zero => w.weightedAvgCollectionPct = Zero
                  /\ \A x \in derivedOfAggregate(w) : IsFinite(x)
    /\ pc = "engineered" =>
           \A i \in 1..Len(features) :
               LET f == features[i]
               IN /\ f.totalVisitCount = Zero =>
                         f.avgPaymentPerVisit = Zero /\ f.chargesPerVisit = Zero
                  /\ f.totalChargeAmount = Zero =>
                         /\ f.weightedAvgCollectionPct = Zero
                         /\ \A x \in payerSharesOf(impl, f) : x = Zero
                  /\ \A x \in payerSharesOf(impl, f) \cup {f.chargesPerVisit,
                         f.avgPaymentPerVisit, f.weightedAvgCollectionPct,
                         f.pctVisitsWithLabs} : IsFinite(x)

\* a week with payments but neither visits nor charges has been turned into features
C9_Witness ==
    /\ pc = "engineered"
    /\ \E i \in 1..Len(features) :
           /\ features[i].totalVisitCount = Zero
           /\ features[i].totalChargeAmount = Zero
           /\ RGt(features[i].totalPayments, Zero)

-----------------------------------------------------------------------------
(* The extractor's properties, under SpecExtract *)

\* the last data row at or before row i whose cell of column f is non-empty,
\* 0 when there is none
mostRecentNonEmpty(rows, i, f) ==
    LET S == {k \in 1..i : isNonEmpty(rows[k][f])}
    IN IF S = {} THEN 0 ELSE CHOOSE k \in S : \A j \in S : j <= k

\* C10: carry-forward.  In every pass of the row loop, the carried year, week
\* and payer after the row are the most recent non-empty cells of columns A, B
\* and C at or before that row (each column on its own, whether or not the row
\* is skipped), and a record emitted for the row has exactly these values.
C10_CarryForward ==
    [][(pc = "loading" /\ rowIndex' = rowIndex + 1) =>
        LET rows == dataRowsOf(rawData)
            y == mostRecentNonEmpty(rows, rowIndex', "A")
            w == mostRecentNonEmpty(rows, rowIndex', "B")
            p == mostRecentNonEmpty(rows, rowIndex', "C")
        IN /\ currentValues'.year = IF y = 0 THEN noCarriedValues.year ELSE rows[y].A
           /\ currentValues'.week = IF w = 0 THEN noCarriedValues.week ELSE rows[w].B
           /\ currentValues'.payer = IF p = 0 THEN noCarriedValues.payer ELSE rows[p].C
           /\ Len(cleanedData') > Len(cleanedData) =>
                /\ Len(cleanedData') = Len(cleanedData) + 1
                /\ y > 0 /\ w > 0 /\ p > 0
                /\ cleanedData'[Len(cleanedData')].year = rows[y].A.val
                /\ cleanedData'[Len(cleanedData')].week = rows[w].B.val
                /\ cleanedData'[Len(cleanedData')].payer = rows[p].C.val
    ]_vars

\* the second row of a sheet is emitted with the year and payer of the first
\* row, which was skipped for its missing E/M group, and a week of its own
C10_Witness ==
    /\ rowIndex = 2
    /\ Len(cleanedData) = 1
    /\ LET rows == dataRowsOf(rawData)
       IN /\ ~truthyString(rows[1].D)
          /\ isNonEmpty(rows[1].A) /\ isNonEmpty(rows[1].B) /\ isNonEmpty(rows[1].C)
          /\ ~isNonEmpty(rows[2].A) /\ isNonEmpty(rows[2].B) /\ ~isNonEmpty(rows[2].C)
          /\ cleanedData[1].year = rows[1].A.val
          /\ cleanedData[1].week = rows[2].B.val
          /\ cleanedData[1].week # rows[1].B.val
          /\ cleanedData[1].payer = rows[1].C.val

\* C11: acceptance.  In every pass of the row loop a record is pushed if and
\* only if the carried year, week and payer and the row's E/M group are present
\* and the parsed totalPayments, chargeAmount, visitCount are >= 0 and
\* collectionPct is in [0, 5]; every other row is dropped and the loop goes on;
\* so every record of cleanedData satisfies these bounds.
C11_EmittedIffValid ==
    [][(pc = "loading" /\ rowIndex' = rowIndex + 1) =>
        LET row == dataRowsOf(rawData)[rowIndex']
            accepted == /\ ~missingEssential(currentValues', row)
                        /\ validateRecord(buildRecord(impl, currentValues', row))
        IN /\ accepted <=> Len(cleanedData') = Len(cleanedData) + 1
           /\ ~accepted => cleanedData' = cleanedData
           /\ pc' = "loading"
           /\ \A i \in 1..Len(cleanedData') : validateRecord(cleanedData'[i])
    ]_vars

-----------------------------------------------------------------------------
(* createColumnMap of part_010 *)

\* the most cells in an enumerated header row
MaxHeaders == 3

\* The keywords of createColumnMap that the lower-cased, trimmed text of a
\* header contains (String.prototype.includes is a substring test, so
\* "Total Payments" contains "payment").
KeywordsIn(text) ==
    CASE text = "Year" -> {}
      [] text = "E/M Group" -> {"e/m"}
      [] text = "Charge Amount" -> {"charge", "amount"}
      [] text = "Collection %" -> {"collection", "%"}
      [] text = "Total Payments" -> {"total", "payment"}
      [] text = "Payments Expected" -> {"payment", "expected"}
      [] text = "Visit Count" -> {"visit", "count"}
      [] text = "Visits with Lab Count" -> {"visit", "lab", "count"}
      [] text = "Average Payment" -> {"average", "payment"}
      [] text = "Average Payment Expected" -> {"average", "payment", "expected"}
      [] text = "Avg E/M Weight" -> {"e/m", "weight"}
      [] text = "% of Total" -> {"%", "total"}
      [] text = "Collection % of Total" -> {"collection", "%", "total"}
      [] OTHER -> {}

HeaderTexts ==
    {"Year", "E/M Group", "Charge Amount", "Collection %", "Total Payments",
     "Payments Expected", "Visit Count", "Visits with Lab Count", "Average Payment",
     "Average Payment Expected", "Avg E/M Weight", "% of Total",
     "Collection % of Total"}

\* a header cell: a string, or undefined, or a number
HeaderCell(kind, text, num) == [kind |-> kind, text |-> text, num |-> num]

HeaderCells ==
    {HeaderCell("string", t, 0) : t \in HeaderTexts}
    \cup {HeaderCell("undefined", "", 0), HeaderCell("string", "", 0),
          HeaderCell("number", "", 0), HeaderCell("number", "", 2024)}

\* if (!header) return
falsyHeader(header) ==
    \/ header.kind = "undefined"
    \/ header.kind = "string" /\ header.text = ""
    \/ header.kind = "number" /\ header.num = 0

\* header.toLowerCase is not a function
toLowerCaseThrows(header) == ~falsyHeader(header) /\ header.kind # "string"

\* headerLower.includes(word)
includes(header, word) == word \in KeywordsIn(header.text)

FieldNames ==
    <<"totalPayments", "chargeAmount", "collectionPct", "visitCount",
      "visitsWithLabCount", "avgPayment", "avgEMWeight", "paymentsPct">>

\* the keyword rule of a field: the condition of its branch
keywordRule(field, header) ==
    CASE field = "totalPayments" -> includes(header, "payment") /\ includes(header, "expected")
      [] field = "chargeAmount" -> includes(header, "charge") /\ includes(header, "amount")
      [] field = "collectionPct" -> includes(header, "collection") /\ includes(header, "%")
      [] field = "visitCount" -> includes(header, "visit") /\ includes(header, "count")
                                 /\ ~includes(header, "lab")
      [] field = "visitsWithLabCount" -> includes(header, "lab") /\ includes(header, "count")
      [] field = "avgPayment" -> includes(header, "average") /\ includes(header, "payment")
      [] field = "avgEMWeight" -> includes(header, "weight") \/ includes(header, "e/m")
      [] field = "paymentsPct" -> includes(header, "%") /\ includes(header, "total")

\* the default index of a field (its standard column)
defaultIndex(field) ==
    CASE field = "totalPayments" -> 9
      [] field = "chargeAmount" -> 7
      [] field = "collectionPct" -> 8
      [] field = "visitCount" -> 10
      [] field = "visitsWithLabCount" -> 11
      [] field = "avgPayment" -> 5
      [] field = "avgEMWeight" -> 6
      [] field = "paymentsPct" -> 4

\* the if / else-if chain: a header assigns the first field of FieldNames whose
\* rule it satisfies
assigns(k, header) ==
    /\ ~falsyHeader(header)
    /\ keywordRule(FieldNames[k], header)
    /\ \A j \in 1..(k - 1) : ~keywordRule(FieldNames[j], header)

\* map[field] after the forEach and the defaults: the index (from 0) of the last
\* header that assigns the field, or the default
columnIndex(headers, k) ==
    LET S == {i \in 1..Len(headers) : assigns(k, headers[i])}
    IN IF S = {} THEN defaultIndex(FieldNames[k])
       ELSE (CHOOSE i \in S : \A j \in S : j <= i) - 1

createColumnMap(headers) ==
    [field \in {FieldNames[k] : k \in 1..Len(FieldNames)} |->
        columnIndex(headers, CHOOSE k \in 1..Len(FieldNames) : FieldNames[k] = field)]

createColumnMapThrows(headers) ==
    \E i \in 1..Len(headers) : toLowerCaseThrows(headers[i])

\* the header row of the documented sheet layout
DocumentedHeaders ==
    <<HeaderCell("string", "Year", 0), HeaderCell("string", "Year", 0),
      HeaderCell("string", "Year", 0), HeaderCell("string", "E/M Group", 0),
      HeaderCell("string", "Charge Amount", 0), HeaderCell("string", "Collection %", 0),
      HeaderCell("string", "Total Payments", 0), HeaderCell("string", "Visit Count", 0),
      HeaderCell("string", "Visits with Lab Count", 0)>>

HeaderRows == SeqsUpTo(HeaderCells, MaxHeaders) \cup {DocumentedHeaders}

InitColumnMap ==
    /\ impl = "part_010"
    /\ pc = "mapping"
    /\ rawData \in {<<headers>> : headers \in HeaderRows}
    /\ rowIndex = 0
    /\ currentValues = noCarriedValues
    /\ cleanedData = Null
    /\ weeklyData = Null
    /\ features = Null
    /\ split = Null
    /\ models = Null
    /\ results = Null
    /\ bestModel = Null
    /\ trainStats = Null
    /\ performanceResults = Null
    /\ columnMap = Null
    /\ finalResults = Null
    /\ analysisResults = Null
    /\ previousRuns = <<>>
    /\ runCount = 1
    /\ retry = Null
    /\ app = NoApp

CreateColumnMap ==
    /\ pc = "mapping"
    /\ ~createColumnMapThrows(rawData[1])
    /\ columnMap' = createColumnMap(rawData[1])
    /\ pc' = "mapped"
    /\ UNCHANGED <<impl, rawData, rowIndex, currentValues, cleanedData, weeklyData,
                   features, split, models, results, bestModel, trainStats,
                   performanceResults>>
    /\ UNCHANGED finalResults
    /\ UNCHANGED analysisResults
    /\ UNCHANGED previousRuns
    /\ UNCHANGED runCount
    /\ UNCHANGED retry
    /\ UNCHANGED app

CreateColumnMapFails ==
    /\ pc = "mapping"
    /\ createColumnMapThrows(rawData[1])
    /\ pc' = "failed"
    /\ UNCHANGED <<impl, rawData, rowIndex, currentValues, cleanedData, weeklyData,
                   features, split, models, results, bestModel, trainStats,
                   performanceResults, columnMap>>
    /\ UNCHANGED finalResults
    /\ UNCHANGED analysisResults
    /\ UNCHANGED previousRuns
    /\ UNCHANGED runCount
    /\ UNCHANGED retry
    /\ UNCHANGED app

NextColumnMap ==
    \/ CreateColumnMap
    \/ CreateColumnMapFails

SpecColumnMap == InitColumnMap /\ [][NextColumnMap]_vars

\* C12: header matching first, positional fallback second.  For every header
\* row createColumnMap returns a map of all eight fields; a field is mapped to
\* the index of a header whose text satisfies the field's keyword rule, and it
\* has its default index only when no header satisfies its rule.
C12_HeaderMatchThenFallback ==
    pc \in {"mapped", "failed"} =>
        /\ pc = "mapped"
        /\ DOMAIN columnMap = {FieldNames[k] : k \in 1..Len(FieldNames)}
        /\ \A k \in 1..Len(FieldNames) :
              LET headers == rawData[1]
                  matching == {i \in 1..Len(headers) :
                                  /\ headers[i].kind = "string"
                                  /\ keywordRule(FieldNames[k], headers[i])}
              IN IF matching = {}
                 THEN columnMap[FieldNames[k]] = defaultIndex(FieldNames[k])
                 ELSE columnMap[FieldNames[k]] + 1 \in matching

-----------------------------------------------------------------------------
(* Error handling of the extractor, under SpecExtract *)

\* C13: a sheet with fewer than 2 rows (no header row, or a header row and no
\* data row) makes the extraction fail: it never ends with cleanedData handed
\* on to the aggregation, and no record is produced.
C13_FewerThanTwoRowsFails ==
    (Len(rawData) < 2 /\ pc # "loading") => (pc = "failed" /\ cleanedData = <<>>)

-----------------------------------------------------------------------------
(* The upload controller of part_002: handleFileUpload validates the processed
   records, runAnalysis hands them to runCompleteAnalysis of analyzer.js *)

\* the most records in an enumerated upload
MaxUploaded == 6

\* uploads of n records that cycle through the first w pool weeks
UploadedInputs ==
    {[i \in 1..n |-> PatternRecord(pattern, ((i - 1) % w) + 1)] :
        n \in 1..MaxUploaded, w \in 1..MaxUploaded, pattern \in {1, 2}}
    \cup {<<>>}

\* validateProcessedData: the message of the error it throws, "" when it returns;
\* the records of loadExcelFile are an array and carry the four required fields
validateProcessedData(data) ==
    IF Len(data) = 0 THEN "No data found in the Excel file"
    ELSE IF Len(data) < 5
         THEN "Insufficient data for analysis (minimum 5 records required)"
         ELSE ""

InitUpload ==
    /\ impl = "analyzer.js"
    /\ pc = "uploaded"
    /\ rawData = Null
    /\ rowIndex = 0
    /\ currentValues = noCarriedValues
    /\ cleanedData \in UploadedInputs
    /\ weeklyData = Null
    /\ features = Null
    /\ split = Null
    /\ models = Null
    /\ results = Null
    /\ bestModel = Null
    /\ trainStats = Null
    /\ performanceResults = Null
    /\ columnMap = Null
    /\ finalResults = Null
    /\ analysisResults = Null
    /\ previousRuns = <<>>
    /\ runCount = 1
    /\ retry = Null
    /\ app = NoApp

\* handleFileUpload: this.currentData is set only when the validation returns
ValidateProcessedData ==
    /\ pc = "uploaded"
    /\ pc' = IF validateProcessedData(cleanedData) = "" THEN "cleaned" ELSE "failed"
    /\ UNCHANGED <<impl, rawData, rowIndex, currentValues, cleanedData, weeklyData, features, split,
                   models, results, bestModel, trainStats, performanceResults, columnMap>>
    /\ UNCHANGED finalResults
    /\ UNCHANGED analysisResults
    /\ UNCHANGED previousRuns
    /\ UNCHANGED runCount
    /\ UNCHANGED retry
    /\ UNCHANGED app

NextUpload ==
    \/ ValidateProcessedData
    \/ Next

SpecUpload == InitUpload /\ [][NextUpload]_vars

\* the number of distinct weeks the accepted records aggregate to
distinctWeeks(data) == Cardinality({<<data[i].year, data[i].week>> : i \in 1..Len(data)})

\* C14: when the accepted records aggregate to fewer than 5 distinct weeks the
\* pipeline aborts before the train/test split: the split, the models, the
\* evaluation and the classification never run on fewer than 5 weeks
C14_FewerThanFiveWeeksAborts ==
    pc \in {"split", "developed", "evaluated", "classified"} =>
        /\ distinctWeeks(cleanedData) >= 5
        /\ Len(features) >= 5

\* 0.6 * totalChargeAmount * the week's own weightedAvgCollectionPct
\*   + 0.4 * totalVisitCount * trainAvgPaymentPerVisit
multiFactorOwnRate(week, stats) ==
    RAdd(RMul(RMul(<<3, 5>>, week.totalChargeAmount), week.weightedAvgCollectionPct),
         RMul(RMul(<<2, 5>>, week.totalVisitCount), stats.avgPaymentPerVisit))

\* C15: for every week, a week whose own weightedAvgCollectionPct is 0 included,
\* the Multi-Factor prediction is 0.6 * totalChargeAmount * the week's own
\* weightedAvgCollectionPct + 0.4 * totalVisitCount * trainAvgPaymentPerVisit,
\* both where developModels scores the test weeks and where classifyPerformance
\* re-applies the model when it has won
C15_MultiFactorOwnRate ==
    /\ pc \in {"developed", "evaluated", "classified"} =>
           \A j \in 1..Len(split.testData) :
               models.list[3].predictions[j]
                   = multiFactorOwnRate(split.testData[j], models.trainStats)
    /\ (pc = "classified" /\ bestModel.modelName = "Multi-Factor") =>
           \A i \in 1..Len(features) :
               performanceResults[i].predictedPayments
                   = multiFactorOwnRate(features[i], trainStats)

\* (totalVisitCount * trainAvgPaymentPerVisit)
\*   * max(0.5, bcbsPct * 1.25 + aetnaPct * 1.20 + (1 - bcbsPct - aetnaPct) * 0.95)
payerWeightedDocumented(week, stats) ==
    LET bcbsPct == week.bcbsChargesPct
        aetnaPct == week.aetnaChargesPct
    IN RMul(RMul(week.totalVisitCount, stats.avgPaymentPerVisit),
            RMax(<<1, 2>>,
                 RAdd(RAdd(RMul(bcbsPct, <<5, 4>>), RMul(aetnaPct, <<6, 5>>)),
                      RMul(RSub(RSub(One, bcbsPct), aetnaPct), <<19, 20>>))))

\* C16: for every week the Payer-Weighted prediction is
\* (totalVisitCount * trainAvgPaymentPerVisit) * max(0.5, bcbsPct * 1.25
\* + aetnaPct * 1.20 + (1 - bcbsPct - aetnaPct) * 0.95), both where developModels
\* scores the test weeks and where classifyPerformance re-applies the model when
\* it has won
C16_PayerWeightedFormula ==
    /\ pc \in {"developed", "evaluated", "classified"} =>
           \A j \in 1..Len(split.testData) :
               models.list[4].predictions[j]
                   = payerWeightedDocumented(split.testData[j], models.trainStats)
    /\ (pc = "classified" /\ bestModel.modelName = "Payer-Weighted") =>
           \A i \in 1..Len(features) :
               performanceResults[i].predictedPayments
                   = payerWeightedDocumented(features[i], trainStats)

\* the arithmetic mean of field f over the rows of a partition
meanOfField(rows, f) == RDiv(FieldSum(rows, 1..Len(rows), f), R(Len(rows)))

\* the rows with the rows at the positions J given another collection rate and
\* another payment per visit
MutateRates(rows, J, rate, perVisit) ==
    [i \in 1..Len(rows) |->
        IF i \in J
        THEN [rows[i] EXCEPT !.weightedAvgCollectionPct = rate,
                             !.avgPaymentPerVisit = perVisit]
        ELSE rows[i]]

\* pairs of a weightedAvgCollectionPct and an avgPaymentPerVisit value
RateValues == {<<Zero, Zero>>, <<<<1, 4>>, R(9)>>, <<R(3), <<1, 7>>>>}

\* C17: in part_010 the Business Logic prediction of a week is its
\* totalChargeAmount times the mean of weightedAvgCollectionPct over trainData,
\* the Visit-Based prediction is its totalVisitCount times the mean of
\* avgPaymentPerVisit over trainData, for the scored test weeks and for every week
\* the classifier re-applies the winner to; both statistics come from the rows of
\* trainData only and stay as they are whatever the rows of testData hold
C17_TrainingStatisticsOnly ==
    (impl = "part_010" /\ pc \in {"developed", "evaluated", "classified"}) =>
        LET trainData == split.trainData
            testData == split.testData
            rate == meanOfField(trainData, "weightedAvgCollectionPct")
            perVisit == meanOfField(trainData, "avgPaymentPerVisit")
        IN /\ models.trainStats.avgCollectionRate = rate
           /\ models.trainStats.avgPaymentPerVisit = perVisit
           /\ \A j \in 1..Len(testData) :
                 /\ models.list[1].predictions[j] = RMul(testData[j].totalChargeAmount, rate)
                 /\ models.list[2].predictions[j] = RMul(testData[j].totalVisitCount, perVisit)
           /\ \A J \in SUBSET (1..Len(testData)) : \A m \in RateValues :
                 developModels(impl, trainData, MutateRates(testData, J, m[1], m[2])).trainStats
                     = models.trainStats
           /\ (pc = "classified" /\ bestModel.modelName = "Business Logic") =>
                 \A i \in 1..Len(features) :
                     performanceResults[i].predictedPayments
                         = RMul(features[i].totalChargeAmount, rate)
           /\ (pc = "classified" /\ bestModel.modelName = "Visit-Based") =>
                 \A i \in 1..Len(features) :
                     performanceResults[i].predictedPayments
                         = RMul(features[i].totalVisitCount, perVisit)

\* a scored test week with charges and visits whose two predictions are not 0,
\* after training weeks whose two means differ from the means over all weeks
C17_Witness ==
    /\ impl = "part_010"
    /\ pc = "developed"
    /\ Len(split.testData) >= 1
    /\ models.list[1].predictions[1] # Zero
    /\ models.list[2].predictions[1] # Zero
    /\ LET all == split.trainData \o split.testData
       IN /\ meanOfField(all, "weightedAvgCollectionPct") # models.trainStats.avgCollectionRate
          /\ meanOfField(all, "avgPaymentPerVisit") # models.trainStats.avgPaymentPerVisit

\* the sum of the squares of the differences of two sequences of numbers
sumOfSquaredDifferences(a, b) ==
    SumSeq([i \in 1..Len(a) |-> Square(RSub(a[i], b[i]))])

\* C18: every EvaluationResult has rSquared = max(0, 1 - SSres/SStot), its
\* rSquared is a number from 0 to 1 for every model and every test set, also for
\* a test set of one week or of equal actual totalPayments (SStot = 0)
C18_RSquaredWithinUnitInterval ==
    pc \in {"evaluated", "classified"} =>
        \A m \in 1..Len(results) :
            LET actuals == [j \in 1..Len(split.testData) |-> split.testData[j].totalPayments]
                actualMean == RDiv(SumSeq(actuals), R(Len(actuals)))
                SStot == sumOfSquaredDifferences(actuals, [j \in 1..Len(actuals) |-> actualMean])
                SSres == sumOfSquaredDifferences(actuals, models.list[m].predictions)
                rSquared == results[m].rSquared
            IN /\ ~IsNaN(rSquared)
               /\ RLe(Zero, rSquared)
               /\ RLe(rSquared, One)
               /\ RGt(SStot, Zero) => rSquared = RMax(Zero, RSub(One, RDiv(SSres, SStot)))

\* the text of a field is a fallback text
isFallback(field, fallback) == field = <<Observation(fallback, <<>>)>>

\* C19: in the final record of a week 'What Went Well' carries observations only
\* when the week's diagnostic is 'Over Performed' and is the fallback text for
\* every other week, 'What Could Be Improved' carries observations only when the
\* diagnostic is 'Under Performed' and is the fallback text for every other week,
\* and each field carries at most 2 observations
C19_ObservationsFollowDiagnostic ==
    pc = "analysed" =>
        \A i \in 1..Len(finalResults) :
            LET diagnostic == finalResults[i]["Performance Diagnostic"]
                wentWell == finalResults[i]["What Went Well"]
                improved == finalResults[i]["What Could Be Improved"]
            IN /\ diagnostic # "Over Performed" => isFallback(wentWell, WentWellFallback)
               /\ diagnostic # "Under Performed" => isFallback(improved, ImprovedFallback)
               /\ Len(wentWell) <= 2
               /\ Len(improved) <= 2

-----------------------------------------------------------------------------
(* Repeated runs on one analyzer: after a run has ended the controller hands
   the next data set to the same HealthcareAnalyzer, whose fields still hold
   what the previous run stored *)

\* the most runs of one analyzer
MaxRuns == 3

\* the one-record-per-week array of the pool weeks S under a value pattern
WeeklyInput(pattern, S) ==
    [i \in 1..Cardinality(S) |-> PatternRecord(pattern, SetToSeq(S)[i])]

\* the data sets of the repeated runs
RerunInputs ==
    {WeeklyInput(2, {1, 2, 3}), WeeklyInput(2, 1..6), WeeklyInput(1, {2, 3, 4, 5}),
     WeeklyInput(2, {4}),
     <<MkRecord(2024, W1, "2-BCBS", R(4), <<1, 2>>, R(100), One),
       MkRecord(2024, W2, "17-AETNA", R(4), <<1, 2>>, R(150), One),
       MkRecord(2024, W2, "2-BCBS", R(6), One, R(5), R(2))>>}

InitRerun ==
    /\ impl \in Impls
    /\ pc = "cleaned"
    /\ rawData = Null
    /\ rowIndex = 0
    /\ currentValues = noCarriedValues
    /\ cleanedData \in RerunInputs
    /\ weeklyData = Null
    /\ features = Null
    /\ split = Null
    /\ models = Null
    /\ results = Null
    /\ bestModel = Null
    /\ trainStats = Null
    /\ performanceResults = Null
    /\ columnMap = Null
    /\ finalResults = Null
    /\ analysisResults = Null
    /\ previousRuns = <<>>
    /\ runCount = 1
    /\ retry = Null
    /\ app = NoApp

\* the next run starts after the last one has returned or thrown; the analyzer
\* keeps its fields, previousRuns records what the completed runs stored
StartNextRun ==
    /\ pc \in {"analysed", "failed"}
    /\ runCount < MaxRuns
    /\ runCount' = runCount + 1
    /\ previousRuns' = IF pc = "analysed"
                       THEN Append(previousRuns, [data |-> cleanedData,
                                                  analysisResults |-> analysisResults])
                       ELSE previousRuns
    /\ cleanedData' \in RerunInputs
    /\ pc' = "cleaned"
    /\ UNCHANGED <<impl, rawData, rowIndex, currentValues, weeklyData, features, split, models,
                   results, bestModel, trainStats, performanceResults, columnMap, finalResults,
                   analysisResults>>
    /\ UNCHANGED retry
    /\ UNCHANGED app

NextRerun ==
    \/ StartNextRun
    \/ Next

SpecRerun == InitRerun /\ [][NextRerun]_vars

\* C20: determinism.  A run on the rows of an earlier run of the same analyzer,
\* whether that run was the analyzer's first or came after runs on other rows,
\* stores the same final records, the same bestModel and the same
\* trainCorrelations
C20_Determinism ==
    pc = "analysed" =>
        \A k \in 1..Len(previousRuns) :
            previousRuns[k].data = cleanedData =>
                /\ previousRuns[k].analysisResults.finalResults = analysisResults.finalResults
                /\ previousRuns[k].analysisResults.bestModel = analysisResults.bestModel
                /\ previousRuns[k].analysisResults.trainCorrelations
                       = analysisResults.trainCorrelations

\* the third run of analyzer.js repeats the rows of its first run after a run on
\* other rows with other weeks, and its final records carry observations
C20_Witness ==
    /\ impl = "analyzer.js"
    /\ pc = "analysed"
    /\ Len(previousRuns) = 2
    /\ previousRuns[1].data = cleanedData
    /\ previousRuns[2].data # cleanedData
    /\ Len(previousRuns[2].analysisResults.finalResults) # Len(finalResults)
    /\ Len(finalResults) >= 3
    /\ \E i \in 1..Len(finalResults) : Len(finalResults[i]["What Went Well"]) = 2

\* C21: no stage changes the output of an earlier stage.  Every step leaves the
\* BillingRecord list as it is, every step after the aggregation leaves the
\* WeeklyAggregates as they are, every step after the feature engineering leaves
\* the FeatureRows and their order as they are; when the run is complete the
\* aggregates and the rows are what their stages returned
C21_NoUpstreamMutation ==
    [][/\ cleanedData' = cleanedData
       /\ pc # "cleaned" => weeklyData' = weeklyData
       /\ pc \notin {"cleaned", "aggregated"} => features' = features
       /\ pc' = "analysed" =>
              /\ weeklyData' = aggregateByWeek(impl, cleanedData')
              /\ features' = engineerFeatures(impl, weeklyData')
              /\ \A i \in 1..Len(features') : features'[i].originalData = weeklyData'[i]
      ]_vars

\* a complete run of analyzer.js, whose createTrainTestSplit sorts the rows in
\* place, on records that do not arrive in chronological order
C21_Witness ==
    /\ impl = "analyzer.js"
    /\ pc = "analysed"
    /\ Len(features) >= 2
    /\ weekKeyOf(cleanedData[1]) # features[1].weekKey

-----------------------------------------------------------------------------
(* The end-to-end scenario: ten weeks, one record a week, every record's      *)
(* totalPayments 0.8 times its chargeAmount, run through the part_010 pipeline *)

\* the number of weeks of the scenario
ScenarioWeeks == 10

\* the charge amount of week k under pattern (a, b): a multiple of 5, so that
\* 0.8 times the amount is a whole number
scenarioCharge(a, b, k) == R(5 * (1 + ((a * k + b) % 3)))

\* the visit count of week k: constant (patterns 1 and 2) or alternating between
\* 1 and 2 whatever the charges are (pattern 3)
scenarioVisits(v, k) == IF v = 3 THEN R(1 + (k % 2)) ELSE R(v)

\* the record of week k; the "Collection %" cell of the row is pct
scenarioRecord(a, b, v, pct, k) ==
    MkRecord(2024, <<"W">> \o DigitChars(k), "3-MEDICARE", scenarioCharge(a, b, k), pct,
             RMul(<<4, 5>>, scenarioCharge(a, b, k)), scenarioVisits(v, k))

\* the scenario's data sets: the collection percentage column carries 0.8, the
\* rate the payments were made at, or 1
ScenarioInputs ==
    {[k \in 1..ScenarioWeeks |-> scenarioRecord(a, b, v, pct, k)] :
        a \in 0..2, b \in 0..2, v \in 1..3, pct \in {<<4, 5>>, One}}

InitScenario ==
    /\ impl = "part_010"
    /\ pc = "cleaned"
    /\ rawData = Null
    /\ rowIndex = 0
    /\ currentValues = noCarriedValues
    /\ cleanedData \in ScenarioInputs
    /\ weeklyData = Null
    /\ features = Null
    /\ split = Null
    /\ models = Null
    /\ results = Null
    /\ bestModel = Null
    /\ trainStats = Null
    /\ performanceResults = Null
    /\ columnMap = Null
    /\ finalResults = Null
    /\ analysisResults = Null
    /\ previousRuns = <<>>
    /\ runCount = 1
    /\ retry = Null
    /\ app = NoApp

SpecScenario == InitScenario /\ [][Next]_vars

\* the models have been evaluated on ScenarioWeeks weeks in each of which
\* totalPayments is 0.8 times totalChargeAmount
scenarioEvaluated ==
    /\ pc \in {"evaluated", "classified", "analysed"}
    /\ Len(features) = ScenarioWeeks
    /\ \A i \in 1..Len(features) :
           features[i].totalPayments = RMul(<<4, 5>>, features[i].totalChargeAmount)

\* Business Logic has the lowest test MAE of the four models and is bestModel
businessLogicWins ==
    /\ results[1].modelName = "Business Logic"
    /\ \A m \in 1..4 : RLe(results[1].mae, results[m].mae)
    /\ bestModel.modelName = "Business Logic"

-----------------------------------------------------------------------------
(* Week labels that contain '-', such as the day range "1-7" of a week *)

\* week labels with and without a '-', all of the year 2024
DashWeekPool ==
    <<W1, <<"W", "1", "-", "1">>, <<"W", "1", "-", "2">>, W2, <<"W", "2", "-", "1">>, W3>>

\* the record of week k of the pool under one of the value patterns
DashRecord(pattern, k) ==
    IF pattern = 1
    THEN MkRecord(2024, DashWeekPool[k], "3-MEDICARE", R(4), One, R(5), One)
    ELSE MkRecord(2024, DashWeekPool[k], <<"2-BCBS", "17-AETNA", "3-MEDICARE">>[(k % 3) + 1],
                  R(3 + (k % 3)), <<1, 2>>, R(1 + ((k * k) % 4)), R(1 + (k % 2)))

\* one record per week of a set of pool weeks, and the same followed by a second
\* record of its first week
DashInputs ==
    LET one(S, pattern) == [i \in 1..Cardinality(S) |-> DashRecord(pattern, SetToSeq(S)[i])]
    IN {one(S, pattern) :
           S \in {T \in SUBSET (1..Len(DashWeekPool)) : Cardinality(T) <= MaxWeeks},
           pattern \in {1, 2}}
       \cup
       {Append(one(S, 2), one(S, 1)[1]) :
           S \in {T \in SUBSET (1..Len(DashWeekPool)) : Cardinality(T) \in 1..MaxWeeks}}

InitDashWeeks ==
    /\ impl \in Impls
    /\ pc = "cleaned"
    /\ rawData = Null
    /\ rowIndex = 0
    /\ currentValues = noCarriedValues
    /\ cleanedData \in DashInputs
    /\ weeklyData = Null
    /\ features = Null
    /\ split = Null
    /\ models = Null
    /\ results = Null
    /\ bestModel = Null
    /\ trainStats = Null
    /\ performanceResults = Null
    /\ columnMap = Null
    /\ finalResults = Null
    /\ analysisResults = Null
    /\ previousRuns = <<>>
    /\ runCount = 1
    /\ retry = Null
    /\ app = NoApp

SpecDashWeeks == InitDashWeeks /\ [][Next]_vars

\* the index of the aggregate whose detailRecords hold record r
bucketOf(r) ==
    CHOOSE a \in 1..Len(weeklyData) :
        \E j \in 1..Len(weeklyData[a].detailRecords) : weeklyData[a].detailRecords[j] = r

\* C23: the week key identifies one aggregation bucket.  Two records are in the
\* same bucket exactly when they have the same year and week label; no two
\* WeeklyAggregates have the same (year, week); the year and the week of an
\* aggregate are the year and the full week label of each of its detailRecords,
\* also for labels that contain '-'.
C23_WeekKeyIdentifiesBucket ==
    pc = "aggregated" =>
        /\ \A i, j \in 1..Len(cleanedData) :
               (bucketOf(cleanedData[i]) = bucketOf(cleanedData[j]))
                   <=> (/\ cleanedData[i].year = cleanedData[j].year
                        /\ cleanedData[i].week = cleanedData[j].week)
        /\ \A a, b \in 1..Len(weeklyData) :
               a # b => <<weeklyData[a].year, weeklyData[a].week>>
                            # <<weeklyData[b].year, weeklyData[b].week>>
        /\ \A a \in 1..Len(weeklyData) :
               \A j \in 1..Len(weeklyData[a].detailRecords) :
                   /\ weeklyData[a].year = R(weeklyData[a].detailRecords[j].year)
                   /\ weeklyData[a].week = weeklyData[a].detailRecords[j].week

\* the buckets are right: records share a bucket exactly when they share year and
\* week label, and every record is in exactly one bucket
C23_BucketsFollowYearAndWeek ==
    pc = "aggregated" =>
        \A i, j \in 1..Len(cleanedData) :
            (bucketOf(cleanedData[i]) = bucketOf(cleanedData[j]))
                <=> (/\ cleanedData[i].year = cleanedData[j].year
                     /\ cleanedData[i].week = cleanedData[j].week)

-----------------------------------------------------------------------------
(* Performance labels *)

\* calculatePerformance of analyzer.js:
\* percentageDiff = ((actualPayments - predictedPayments) / predictedPayments) * 100
calculatePerformance(actualPayments, predictedPayments) ==
    LET percentageDiff ==
            RMul(RDiv(RSub(actualPayments, predictedPayments), predictedPayments), R(100))
    IN IF RGt(percentageDiff, <<5, 2>>) THEN "Over Performed"
       ELSE IF RLt(percentageDiff, <<-5, 2>>) THEN "Under Performed"
       ELSE "Average Performance"

\* the label the documented thresholds give: actual more than 2.5% below
\* predicted, more than 2.5% above predicted, or within +-2.5% of predicted
documentedLabel(actual, predicted) ==
    IF RLt(actual, RMul(<<39, 40>>, predicted)) THEN "Under Performed"
    ELSE IF RGt(actual, RMul(<<41, 40>>, predicted)) THEN "Over Performed"
    ELSE "Average Performance"

-----------------------------------------------------------------------------
(* retryWithBackoff of utils.js as a state machine.  The variable retry holds   *)
(* the call's parameters and locals, the position in the function, the state   *)
(* of the returned promise, and a log of what the call did.                    *)

\* the largest maxRetries of an enumerated call
MaxRetries == 3

\* the base delays of the enumerated calls, in ms; 1000 is the default
BaseDelays == {1, 250, 1000}

\* the values fn can resolve with
FnValues == {<<"data A">>, <<"data B">>}

RECURSIVE Pow2(_)
Pow2(k) == IF k = 0 THEN 1 ELSE 2 * Pow2(k - 1)

\* a delay that grows by baseDelay with every attempt
linearDelay(baseDelay, attempt) == baseDelay * (attempt + 1)

\* const delay = baseDelay * Math.pow(2, attempt)
backoffDelay(baseDelay, attempt) == baseDelay * Pow2(attempt)

\* the call retryWithBackoff(fn, maxRetries, baseDelay) at the head of its loop
retryCall(maxRetries, baseDelay) ==
    [pc |-> "loop", maxRetries |-> maxRetries, baseDelay |-> baseDelay,
     attempt |-> 0, lastError |-> <<"undefined">>, inFlight |-> 0,
     promise |-> [state |-> "pending", value |-> <<"undefined">>],
     log |-> <<>>]

InitRetry ==
    /\ impl = "analyzer.js"
    /\ pc = "loading"
    /\ rawData = Null
    /\ rowIndex = 0
    /\ currentValues = noCarriedValues
    /\ cleanedData = <<>>
    /\ weeklyData = Null
    /\ features = Null
    /\ split = Null
    /\ models = Null
    /\ results = Null
    /\ bestModel = Null
    /\ trainStats = Null
    /\ performanceResults = Null
    /\ columnMap = Null
    /\ finalResults = Null
    /\ analysisResults = Null
    /\ previousRuns = <<>>
    /\ runCount = 1
    /\ \E maxRetries \in 0..MaxRetries, baseDelay \in BaseDelays :
           retry = retryCall(maxRetries, baseDelay)
    /\ app = NoApp

pipelineUnchanged ==
    UNCHANGED <<impl, pc, rawData, rowIndex, currentValues, cleanedData, weeklyData,
                features, split, models, results, bestModel, trainStats,
                performanceResults, columnMap, finalResults, analysisResults,
                previousRuns, runCount>>

\* the loop test and the call fn() of the try block; the throw after the loop
\* when the test fails
RetryAttempt ==
    /\ retry.pc = "loop"
    /\ retry' =
           IF retry.attempt <= retry.maxRetries
           THEN [retry EXCEPT !.pc = "awaiting", !.inFlight = @ + 1,
                              !.log = Append(@, [event |-> "call", attempt |-> retry.attempt])]
           ELSE [retry EXCEPT !.pc = "done",
                              !.promise = [state |-> "rejected", value |-> retry.lastError]]
    /\ pipelineUnchanged
    /\ UNCHANGED app

\* fn's promise fulfils: return await fn()
RetryFnFulfils ==
    /\ retry.pc = "awaiting"
    /\ \E value \in FnValues :
           retry' = [retry EXCEPT !.pc = "done", !.inFlight = @ - 1,
                                  !.promise = [state |-> "fulfilled", value |-> value],
                                  !.log = Append(@, [event |-> "fulfilled",
                                                     attempt |-> retry.attempt,
                                                     value |-> value])]
    /\ pipelineUnchanged
    /\ UNCHANGED app

\* fn's promise rejects: the catch block up to the throw or the call of sleep
RetryFnRejects ==
    /\ retry.pc = "awaiting"
    /\ LET error == <<"error of attempt", retry.attempt>>
           failed == Append(retry.log, [event |-> "rejected", attempt |-> retry.attempt,
                                        error |-> error])
       IN retry' =
              IF retry.attempt = retry.maxRetries
              THEN [retry EXCEPT !.pc = "done", !.inFlight = @ - 1, !.lastError = error,
                                 !.promise = [state |-> "rejected", value |-> error],
                                 !.log = failed]
              ELSE [retry EXCEPT !.pc = "sleeping", !.inFlight = @ - 1, !.lastError = error,
                                 !.log = Append(failed,
                                     [event |-> "sleep", attempt |-> retry.attempt,
                                      delay |-> backoffDelay(retry.baseDelay, retry.attempt)])]
    /\ pipelineUnchanged
    /\ UNCHANGED app

\* the timer of sleep fires: attempt++
RetrySleepEnds ==
    /\ retry.pc = "sleeping"
    /\ retry' = [retry EXCEPT !.pc = "loop", !.attempt = @ + 1]
    /\ pipelineUnchanged
    /\ UNCHANGED app

NextRetry == RetryAttempt \/ RetryFnFulfils \/ RetryFnRejects \/ RetrySleepEnds

SpecRetry == InitRetry /\ [][NextRetry]_vars

\* the entries of the log with one kind of event, in order
logOf(event) == LET is(e) == e.event = event IN Filter(retry.log, is)

\* C25: retryWithBackoff invokes fn at most maxRetries + 1 times and never while
\* an earlier invocation is in flight; attempt k is made only after attempts
\* 0..k-1 failed; it fulfils with the value of the first attempt that succeeds,
\* which is the last thing it does; it rejects only after maxRetries + 1 failed
\* attempts, with the error of the last one, which is the last thing it does;
\* the k-th failure with k < maxRetries is followed by a sleep of
\* baseDelay * 2^k, and the failure of attempt maxRetries by none.
C25_RetryWithBackoff ==
    retry # Null =>
        LET calls == logOf("call")
            failures == logOf("rejected")
            successes == logOf("fulfilled")
            sleeps == logOf("sleep")
            last == retry.log[Len(retry.log)]
        IN /\ Len(calls) <= retry.maxRetries + 1
           /\ retry.inFlight \in {0, 1}
           /\ retry.inFlight = Len(calls) - Len(failures) - Len(successes)
           /\ \A k \in 1..Len(calls) : calls[k].attempt = k - 1
           /\ \A k \in 1..Len(failures) : failures[k].attempt = k - 1
           /\ Len(successes) <= 1
           /\ Len(successes) = 1 =>
                  /\ last = successes[1]
                  /\ retry.promise = [state |-> "fulfilled", value |-> successes[1].value]
                  /\ successes[1].attempt = Len(failures)
                  /\ retry.pc = "done"
           /\ retry.promise.state = "fulfilled" => Len(successes) = 1
           /\ retry.promise.state = "rejected" =>
                  /\ Len(failures) = retry.maxRetries + 1
                  /\ Len(successes) = 0
                  /\ last = failures[Len(failures)]
                  /\ retry.promise.value = last.error
                  /\ retry.pc = "done"
           /\ (retry.pc = "done") <=> (retry.promise.state # "pending")
           /\ \A k \in 1..Len(sleeps) :
                  /\ sleeps[k].attempt = k - 1
                  /\ sleeps[k].attempt < retry.maxRetries
                  /\ sleeps[k].delay = retry.baseDelay * Pow2(k - 1)
           /\ Len(sleeps) = (IF Len(failures) > retry.maxRetries
                             THEN retry.maxRetries ELSE Len(failures))

\* a call with the default baseDelay whose third attempt succeeds after sleeps
\* of 1000 and 2000 ms
C25_Witness ==
    /\ retry # Null
    /\ retry.baseDelay = 1000
    /\ retry.maxRetries = 3
    /\ retry.promise = [state |-> "fulfilled", value |-> <<"data B">>]
    /\ Len(logOf("call")) = 3
    /\ Len(logOf("sleep")) = 2
    /\ logOf("sleep")[2].delay = 2000

\* a call whose four attempts all failed
C25_RejectedWitness ==
    /\ retry # Null
    /\ retry.maxRetries = 3
    /\ retry.promise = [state |-> "rejected", value |-> <<"error of attempt", 3>>]
    /\ Len(logOf("sleep")) = 3

-----------------------------------------------------------------------------
(* The application controllers (HealthcareRevenueApp): the class of part_002   *)
(* lines 457-, its first variant (part_002 lines 11-426) and the one of        *)
(* part_004.  A handler runs until it awaits something that a later task of    *)
(* the event loop settles (the FileReader of loadExcelFile); the continuation  *)
(* after an await of runCompleteAnalysis, which settles in the same task, is a *)
(* microtask: it runs before any other event is handled.                       *)

\* the most user events (selections, drops and clicks) in an enumerated session
MaxEvents == 4

AppVariants == {"part_002", "part_002 first variant", "part_004"}

\* this.currentData = null; this.analysisResults = null
NullData == [id |-> "null", valid |-> FALSE, analysable |-> FALSE]
NullResults == [computedFrom |-> "null"]

\* what loadExcelFile resolves with for the files a user can choose: two data
\* sets that pass validateProcessedData and analyse, one that is rejected, and
\* one whose analysis throws
Files ==
    {[id |-> "A", valid |-> TRUE, analysable |-> TRUE],
     [id |-> "B", valid |-> TRUE, analysable |-> TRUE],
     [id |-> "C", valid |-> FALSE, analysable |-> FALSE],
     [id |-> "D", valid |-> TRUE, analysable |-> FALSE]}

\* the controller after its constructor
appAfterConstructor(variant) ==
    [variant |-> variant,
     currentData |-> NullData, analysisResults |-> NullResults, isProcessing |-> FALSE,
     loading |-> {},         \* the files whose loadExcelFile is pending
     pending |-> <<>>,       \* the data of the runCompleteAnalysis call being awaited
     timers |-> 0,           \* the live timers of timeoutPromise
     events |-> 0, started |-> 0, ended |-> 0, exports |-> 0, warnings |-> 0, resets |-> 0,
     lastExported |-> NullResults,
     loadedSinceReset |-> FALSE, succeededSinceReset |-> FALSE,
     last |-> "constructor"]

InitApp ==
    /\ impl = "analyzer.js"
    /\ pc = "loading"
    /\ rawData = Null
    /\ rowIndex = 0
    /\ currentValues = noCarriedValues
    /\ cleanedData = <<>>
    /\ weeklyData = Null
    /\ features = Null
    /\ split = Null
    /\ models = Null
    /\ results = Null
    /\ bestModel = Null
    /\ trainStats = Null
    /\ performanceResults = Null
    /\ columnMap = Null
    /\ finalResults = Null
    /\ analysisResults = Null
    /\ previousRuns = <<>>
    /\ runCount = 1
    /\ retry = Null
    /\ \E variant \in AppVariants : app = appAfterConstructor(variant)

\* the state a reset leaves the data in when it keeps the results
resetDataOnly(a) == [a EXCEPT !.currentData = NullData]

\* resetApplication: "Clear application state"
clearState(a) ==
    [a EXCEPT !.currentData = NullData, !.analysisResults = NullResults,
              !.isProcessing = FALSE]

\* a runAnalysis that leaves isProcessing as the try block set it
noFinally(a) == a

\* runAnalysis of part_002: finally { this.isProcessing = false }
finallyOf(a) == [a EXCEPT !.isProcessing = FALSE]

\* runAnalysis up to its first await: the guards, isProcessing = true, the call
\* of runCompleteAnalysis(this.currentData) and the timer of timeoutPromise
runAnalysisStart(a) ==
    IF a.variant = "part_002" /\ a.isProcessing THEN a
    ELSE IF a.currentData = NullData THEN [a EXCEPT !.warnings = @ + 1]
    ELSE [a EXCEPT !.isProcessing = (a.variant = "part_002") \/ @,
                   !.pending = Append(@, a.currentData),
                   !.started = @ + 1,
                   !.timers = IF a.variant = "part_002" THEN @ + 1 ELSE @]

\* runAnalysis after its await: the results are installed, or the error is
\* handled; the finally block of part_002
runAnalysisEnd(a) ==
    LET data == Head(a.pending)
        settled == [a EXCEPT !.pending = Tail(@), !.ended = @ + 1]
        installed == IF data.analysable
                     THEN [settled EXCEPT !.analysisResults = [computedFrom |-> data.id],
                                          !.succeededSinceReset = TRUE]
                     ELSE settled
    IN IF a.variant = "part_002" THEN finallyOf(installed) ELSE installed

\* processSelectedFile / processFile after loadExcelFile has settled
processLoaded(a, data) ==
    LET loaded == [a EXCEPT !.currentData = data, !.loadedSinceReset = TRUE]
    IN IF ~data.valid THEN a
       ELSE IF a.variant = "part_002"
       THEN runAnalysisStart([loaded EXCEPT !.analysisResults = NullResults])
       ELSE IF a.variant = "part_004"
       THEN runAnalysisStart(loaded)
       ELSE loaded

\* exportResults up to the call of the export manager
exportResults(a) ==
    IF a.analysisResults = NullResults THEN [a EXCEPT !.warnings = @ + 1]
    ELSE [a EXCEPT !.exports = @ + 1, !.lastExported = a.analysisResults]

\* resetApplication; part_002 asks for confirmation when there is something to lose
resetApplication(a, confirmed) ==
    IF /\ a.variant = "part_002"
       /\ (a.currentData # NullData \/ a.analysisResults # NullResults)
       /\ ~confirmed
    THEN a
    ELSE [clearState(a) EXCEPT !.resets = @ + 1, !.loadedSinceReset = FALSE,
                               !.succeededSinceReset = FALSE]

\* a user event is handled when no continuation is waiting in the microtask queue
userEvent ==
    /\ app.pending = <<>>
    /\ app.events < MaxEvents
    /\ UNCHANGED retry
    /\ pipelineUnchanged

stamped(a, name) == [a EXCEPT !.events = @ + 1, !.last = name]

\* the change event of the file input: handleFileSelect
SelectFile ==
    /\ userEvent
    /\ \E file \in Files :
           app' = stamped([app EXCEPT !.loading = @ \cup {file}], "handleFileSelect")

\* the drop event of the upload area: handleFileDrop
DropFile ==
    /\ userEvent
    /\ \E file \in Files :
           app' = stamped([app EXCEPT !.loading = @ \cup {file}], "handleFileDrop")

\* loadExcelFile settles and the handler that awaited it goes on
LoadSettles ==
    /\ app.pending = <<>>
    /\ \E file \in app.loading :
           app' = [processLoaded([app EXCEPT !.loading = @ \ {file}], file)
                       EXCEPT !.last = "processSelectedFile"]
    /\ UNCHANGED retry
    /\ pipelineUnchanged

\* the click on the analysis button
ClickRunAnalysis ==
    /\ userEvent
    /\ app' = stamped(runAnalysisStart(app), "runAnalysis")

\* the continuation of runAnalysis
AnalysisSettles ==
    /\ app.pending # <<>>
    /\ app' = [runAnalysisEnd(app) EXCEPT !.last = "runAnalysis settled"]
    /\ UNCHANGED retry
    /\ pipelineUnchanged

\* the timer of a timeoutPromise fires after its race was settled
TimeoutFires ==
    /\ app.pending = <<>>
    /\ app.timers > 0
    /\ app' = [app EXCEPT !.timers = @ - 1, !.last = "timeout"]
    /\ UNCHANGED retry
    /\ pipelineUnchanged

\* the click on an export button
ClickExport ==
    /\ userEvent
    /\ app' = stamped(exportResults(app), "exportResults")

\* the click on the reset button and the answer to confirm()
ClickReset ==
    /\ userEvent
    /\ \E confirmed \in BOOLEAN :
           app' = stamped(resetApplication(app, confirmed), "resetApplication")

NextApp ==
    \/ SelectFile
    \/ DropFile
    \/ LoadSettles
    \/ ClickRunAnalysis
    \/ AnalysisSettles
    \/ TimeoutFires
    \/ ClickExport
    \/ ClickReset

SpecApp == InitApp /\ [][NextApp]_vars

\* C26: whenever no handler is in the middle of its work and analysisResults is
\* non-null, it was computed from the data set in currentData: results of an
\* earlier file do not remain, and are not installed, once a newer file is
\* currentData.
C26_ResultsBelongToCurrentData ==
    (app # NoApp /\ app.pending = <<>> /\ app.analysisResults # NullResults)
        => app.analysisResults.computedFrom = app.currentData.id

\* the same for the class of part_002 whose processSelectedFile clears the results
C26_ResultsBelongToCurrentDataPart002 ==
    (app # NoApp /\ app.variant = "part_002" /\ app.analysisResults # NullResults)
        => app.analysisResults.computedFrom = app.currentData.id

\* C27: in the class of part_002 at most one analysis is in progress, and
\* isProcessing is true exactly while one is: when an analysis has ended, with
\* results or with an error, isProcessing is false and runAnalysis can start
\* the next one.  No step taken while isProcessing is true calls
\* runCompleteAnalysis.
C27_OneAnalysisAtATime ==
    /\ [](app.variant = "part_002" =>
              /\ Len(app.pending) <= 1
              /\ app.started - app.ended = Len(app.pending)
              /\ app.isProcessing <=> (app.pending # <<>>))
    /\ [][(app.variant = "part_002" /\ app.isProcessing) => app'.started = app.started]_vars

\* an analysis of part_002 in progress that was started by the analysis button
\* after an earlier analysis had thrown
C27_Witness ==
    /\ app.variant = "part_002"
    /\ app.isProcessing
    /\ Len(app.pending) = 1
    /\ app.started = 2
    /\ app.ended = 1
    /\ app.currentData.id = "D"
    /\ app.last = "runAnalysis"

\* C30: in the class of part_002 exportResults hands the results to the export
\* manager only when analysisResults is non-null, and otherwise shows a warning
\* and changes nothing else; a resetApplication that goes through leaves
\* currentData and analysisResults null; an analysis starts only on non-null
\* currentData, loaded after the last reset, and an export takes place only
\* after a load and a successful analysis that followed the last reset.
C30_ExportAndReset ==
    [][app.variant = "part_002" =>
          /\ app'.last = "exportResults" =>
                 IF app.analysisResults = NullResults
                 THEN app' = [app EXCEPT !.warnings = @ + 1, !.events = @ + 1,
                                         !.last = "exportResults"]
                 ELSE /\ app'.exports = app.exports + 1
                      /\ app'.lastExported = app.analysisResults
          /\ app'.exports # app.exports =>
                 /\ app'.last = "exportResults"
                 /\ app.analysisResults # NullResults
                 /\ app.loadedSinceReset
                 /\ app.succeededSinceReset
          /\ app'.resets # app.resets =>
                 /\ app'.currentData = NullData
                 /\ app'.analysisResults = NullResults
                 /\ ~app'.loadedSinceReset
                 /\ ~app'.succeededSinceReset
          /\ app'.started # app.started =>
                 /\ app'.currentData # NullData
                 /\ app'.loadedSinceReset
          /\ ~app'.loadedSinceReset =>
                 /\ app'.currentData = NullData
                 /\ app'.analysisResults = NullResults
      ]_vars

\* an export of the results of file B, loaded and analysed after a reset
C30_Witness ==
    /\ app.variant = "part_002"
    /\ app.resets = 1
    /\ app.exports = 1
    /\ app.last = "exportResults"
    /\ app.lastExported = [computedFrom |-> "B"]
    /\ app.analysisResults = [computedFrom |-> "B"]
    /\ app.currentData.id = "B"

\* an export refused after a reset that cleared loaded data and results
C30_RefusedWitness ==
    /\ app.variant = "part_002"
    /\ app.resets = 1
    /\ app.ended = 1
    /\ app.warnings = 1
    /\ app.exports = 0
    /\ app.last = "exportResults"

-----------------------------------------------------------------------------
(* Payer mixes: weeks whose charges are split between BCBS, Aetna and other    *)
(* payers in different proportions, run through the part_010 pipeline          *)

\* the records of one week under each payer mix: <<payer, chargeAmount,
\* visitCount>> triples; every week has two visits
PayerMixes ==
    <<<<<<"2-BCBS", 4, 2>>>>,
      <<<<"17-AETNA", 4, 2>>>>,
      <<<<"3-MEDICARE", 4, 2>>>>,
      <<<<"2-BCBS", 2, 1>>, <<"17-AETNA", 2, 1>>>>,
      <<<<"2-BCBS", 2, 1>>, <<"3-MEDICARE", 2, 1>>>>,
      <<<<"17-AETNA", 2, 1>>, <<"5-COMMERCIAL", 1, 1>>, <<"1-SELF PAY", 1, 0>>>>,
      <<<<"2-BCBS", 0, 1>>, <<"3-MEDICARE", 0, 1>>>>>>

\* the records of pool week k with payer mix m; every record collects half of
\* its charges
mixRecords(k, m) ==
    [i \in 1..Len(PayerMixes[m]) |->
        MkRecord(WeekPool[k][1], WeekPool[k][2], PayerMixes[m][i][1],
                 R(PayerMixes[m][i][2]), <<1, 2>>, RMul(<<1, 2>>, R(PayerMixes[m][i][2])),
                 R(PayerMixes[m][i][3]))]

\* n weeks whose mixes follow the pattern (a, b)
PayerMixInputs ==
    {Flatten([k \in 1..n |-> mixRecords(k, ((a * k + b) % Len(PayerMixes)) + 1)]) :
        n \in 5..MaxWeeks, a \in 0..(Len(PayerMixes) - 1), b \in 0..(Len(PayerMixes) - 1)}

InitPayerMix ==
    /\ impl = "part_010"
    /\ pc = "cleaned"
    /\ rawData = Null
    /\ rowIndex = 0
    /\ currentValues = noCarriedValues
    /\ cleanedData \in PayerMixInputs
    /\ weeklyData = Null
    /\ features = Null
    /\ split = Null
    /\ models = Null
    /\ results = Null
    /\ bestModel = Null
    /\ trainStats = Null
    /\ performanceResults = Null
    /\ columnMap = Null
    /\ finalResults = Null
    /\ analysisResults = Null
    /\ previousRuns = <<>>
    /\ runCount = 1
    /\ retry = Null
    /\ app = NoApp

SpecPayerMix == InitPayerMix /\ [][Next]_vars

\* C28: for every FeatureRow built from accepted records the payer adjustment
\* lies in [0.95, 1.25], so that max(0.5, adjustment) is the adjustment, and no
\* prediction of any of the four models is negative.
C28_PayerAdjustmentRange ==
    (/\ impl = "part_010"
     /\ pc \in {"developed", "evaluated", "classified", "analysed"}
     /\ \A i \in 1..Len(cleanedData) : validateRecord(cleanedData[i]))
        => /\ \A i \in 1..Len(features) :
                  LET adjustment == payerAdjustment010(features[i])
                  IN /\ RGe(adjustment, <<19, 20>>)
                     /\ RLe(adjustment, <<5, 4>>)
                     /\ RMax(<<1, 2>>, adjustment) = adjustment
           /\ \A m \in 1..4 :
                  \A i \in 1..Len(models.list[m].predictions) :
                      RGe(models.list[m].predictions[i], Zero)

\* a run whose rows have the adjustments 0.95 (no BCBS or Aetna charges), 1.25
\* (BCBS only) and a value strictly between, with a positive Payer-Weighted
\* prediction
C28_Witness ==
    /\ impl = "part_010"
    /\ pc = "developed"
    /\ \E i \in 1..Len(features) : payerAdjustment010(features[i]) = <<19, 20>>
    /\ \E i \in 1..Len(features) : payerAdjustment010(features[i]) = <<5, 4>>
    /\ \E i \in 1..Len(features) :
           /\ RGt(payerAdjustment010(features[i]), <<19, 20>>)
           /\ RLt(payerAdjustment010(features[i]), <<6, 5>>)
    /\ \E i \in 1..Len(models.list[4].predictions) : RGt(models.list[4].predictions[i], Zero)

-----------------------------------------------------------------------------
(* Column indices of createColumnMap, under SpecColumnMap *)

\* C29: for any header row that createColumnMap maps, the eight numeric fields
\* get eight pairwise distinct column indices: no two fields of a record are
\* read from the same cell.
C29_DistinctColumns ==
    pc = "mapped" =>
        \A j, k \in 1..Len(FieldNames) :
            j # k => columnMap[FieldNames[j]] # columnMap[FieldNames[k]]

\* the same for header rows in which no header is matched at the default index
\* of another field
C29_DistinctColumnsBelowDefaults ==
    (pc = "mapped" /\ Len(rawData[1]) <= 4) =>
        \A j, k \in 1..Len(FieldNames) :
            j # k => columnMap[FieldNames[j]] # columnMap[FieldNames[k]]

====
